---------------------------- MODULE Spec2Model ----------------------------
(***************************************************************************)
(* A model of the travel concierge agent's request pipeline:               *)
(* app/main.py run_request, with the collaborators it drives               *)
(* (AgentState, ShortTermMemory, the long-term memory client, the          *)
(* completion service, json.loads and the TripPlan schema).                *)
(*                                                                         *)
(* Texts.  A text (user input, assistant reply) is a sequence of runs      *)
(* [k, n]: n consecutive characters of kind k.                             *)
(*   "{" , "}"  one brace character                                        *)
(*   "x"        n characters of prose holding no brace                     *)
(*   "frag"     n characters cut out of a JSON member by a slice           *)
(*   a member kind: the complete text of one member of a JSON object,      *)
(*   its separating comma included,                                        *)
(*     "D"  "destination":"Paris","travel_dates":"May 1 to May 5"          *)
(*     "C"  "citations":["c1"]                                             *)
(*     "E"  "citations":[]                                                 *)
(*     "B"  "citations":7                  (ill-typed for the schema)      *)
(*     "R"  "results":[{..url u1}, {..url ""}, {..url u2}, {..url null}]   *)
(*     "S"  "results":[]                                                   *)
(* The braces of the objects inside "R" are interior to the member and are *)
(* never the first "{" or the last "}" of an object that holds the member. *)
(***************************************************************************)
EXTENDS Integers, Sequences, FiniteSets, TLC

VARIABLES
    harness,        \* which driver calls the program (see Init)
    pc,             \* position of run_request
    reqCount,       \* number of run_request calls started
    user_input,     \* run_request's argument
    shared,         \* TRUE when the caller passed its ShortTermMemory
    ltmPresent,     \* TRUE when the caller passes a long_term_memory client
    callerMem,      \* the ShortTermMemory object the caller keeps
    memory,         \* the ShortTermMemory object this request works on
    state,          \* the request's AgentState: [phase, session_id]
    chat_history,   \* the ChatHistory run_request assembles
    submitted,      \* the message list handed to the completion service
    response,       \* what the completion call returned
    response_data,  \* the dict json.loads returned
    agent_response, \* response[0].content
    trip_plan,      \* the validated TripPlan
    exc,            \* the exception in flight
    envelope,       \* what run_request returned (decoded JSON)
    returns,        \* number of values this call has returned
    ltmStore,       \* the records the long-term store holds
    ltmFailed,      \* which long-term writes of this request failed
    trace,          \* the steps this request has taken, in order
    atStart,        \* the caller's memory and the long-term store when the call began
    nextId,         \* source of fresh session identifiers
    sm,             \* a free-standing AgentState driven by the machine harness
    smCalls,        \* calls of advance() made on sm
    smRaised,       \* how many of them raised InvalidTransition
    stm,            \* a free-standing ShortTermMemory driven by the memory harness
    stmLog,         \* every item appended to stm, in order
    rpc,            \* position of retrieve
    arg_k,          \* retrieve's argument k
    partition_key,  \* retrieve's argument partition_key
    container,      \* the documents the Cosmos container held when queried
    provided,       \* what the embedding side did for the query
    query_embedding, \* what embed_texts returned
    query_vector,   \* retrieve's local query_vector
    query_results,  \* retrieve's local results
    retrieved,      \* what retrieve returned
    failure,        \* the exception raised in retrieve's body
    wpc,            \* position of get_weather
    city,           \* get_weather's argument
    geocode_data,   \* what the geocoding request gave
    weather_data,   \* what the forecast request gave
    weather_out,    \* what get_weather returned (decoded JSON)
    wraised,        \* the exception raised in get_weather's body
    fpc,            \* position of convert_fx
    amount,         \* convert_fx's argument amount
    base,           \* convert_fx's base, as it stands
    target,         \* convert_fx's target, as it stands
    fx_data,        \* what the rates request gave
    fx_out,         \* what convert_fx returned (decoded JSON)
    fraised,        \* the exception raised in convert_fx's body
    spc,            \* position of web_search
    configured,     \* all of project_endpoint, agent_id, connection_id are set
    max_results,    \* web_search's argument max_results
    filter_keywords, \* web_search's argument filter_keywords
    raw_json,       \* the assistant text of the agent run
    provider_entries, \* the objects of the JSON array in that text
    search_out,     \* what web_search returned
    sraised         \* the exception raised in web_search's body

\* the free-standing ShortTermMemory
memVars == <<stm, stmLog>>

\* retrieve and the vector store
ragVars == <<rpc, arg_k, partition_key, container, provided, query_embedding,
             query_vector, query_results, retrieved, failure>>

\* get_weather and its two requests
weatherVars == <<wpc, city, geocode_data, weather_data, weather_out, wraised>>

\* convert_fx and its request
fxVars == <<fpc, amount, base, target, fx_data, fx_out, fraised>>

\* web_search and its agent run
searchVars == <<spc, configured, max_results, filter_keywords, raw_json,
                provider_entries, search_out, sraised>>

\* what run_request never touches
otherVars == <<memVars, ragVars, weatherVars, fxVars, searchVars>>

\* run_request's own state and that of the AgentState driver
requestVars == <<pc, reqCount, user_input, shared, ltmPresent, callerMem,
                 memory, state, chat_history, submitted, response, response_data,
                 agent_response, trip_plan, exc, envelope, returns, ltmStore,
                 ltmFailed, trace, atStart, nextId, sm, smCalls, smRaised>>

vars == <<otherVars, harness, pc, reqCount, user_input, shared, ltmPresent, callerMem,
          memory, state, chat_history, submitted, response, response_data,
          agent_response, trip_plan, exc, envelope, returns, ltmStore, ltmFailed,
          trace, atStart, nextId, sm, smCalls, smRaised>>

Null == "null"

Min(a, b) == IF a < b THEN a ELSE b

Max(a, b) == IF a > b THEN a ELSE b

---------------------------------------------------------------------------
(* Bounds of the model *)

\* run_request calls made by the session harness
MaxRequests == 2

\* runs in an assistant text of the pipeline harness
MaxTextRuns == 5

\* advance() calls made by the machine harness
MaxAdvanceCalls == 6

\* add operations made by the memory harness
MaxAppends == 4

\* documents in the vector store
MaxDocs == 3

\* largest k retrieve is called with
MaxK == 2

\* daily weather codes in a forecast
MaxCodes == 3

\* objects in the JSON array of a search reply
MaxEntries == 3

\* largest max_results web_search is called with
MaxResults == 2

---------------------------------------------------------------------------
(* Texts *)

Run(k, n) == [k |-> k, n |-> n]

MemberKinds == {"D", "C", "E", "B", "R", "S"}

\* The number of characters of a member's text.
MemberWidth(k) ==
    CASE k = "D" -> 58
      [] k = "C" -> 18
      [] k = "E" -> 14
      [] k = "B" -> 13
      [] k = "R" -> 61
      [] k = "S" -> 12

Member(k) == Run(k, MemberWidth(k))

LBrace == Run("{", 1)

RBrace == Run("}", 1)

Prose(n) == Run("x", n)

RECURSIVE TextLen(_)
\* len(text)
TextLen(t) == IF t = <<>> THEN 0 ELSE t[1].n + TextLen(Tail(t))

RECURSIVE FindFrom(_, _, _)
FindFrom(t, ch, off) ==
    IF t = <<>> THEN -1
    ELSE IF t[1].k = ch THEN off
    ELSE FindFrom(Tail(t), ch, off + t[1].n)

\* text.find(ch) for a brace ch: the offset of its first occurrence, or -1
Find(t, ch) == FindFrom(t, ch, 0)

RECURSIVE RFindFrom(_, _, _)
RFindFrom(t, ch, i) ==
    IF i = 0 THEN -1
    ELSE IF t[i].k = ch THEN TextLen(SubSeq(t, 1, i - 1))
    ELSE RFindFrom(t, ch, i - 1)

\* text.rfind(ch) for a brace ch: the offset of its last occurrence, or -1
RFind(t, ch) == RFindFrom(t, ch, Len(t))

\* What is left of a run when a slice keeps m of its characters.
Clip(r, m) ==
    IF m = r.n THEN r
    ELSE IF r.k \in MemberKinds \cup {"frag"} THEN Run("frag", m)
    ELSE Run(r.k, m)

RECURSIVE SliceFrom(_, _, _, _)
SliceFrom(t, off, a, b) ==
    IF t = <<>> THEN <<>>
    ELSE LET lo == Max(a, off)
             hi == Min(b, off + t[1].n)
             rest == SliceFrom(Tail(t), off + t[1].n, a, b)
         IN  IF lo < hi THEN <<Clip(t[1], hi - lo)>> \o rest ELSE rest

\* text[a:b] for 0 <= a, 0 <= b
Slice(t, a, b) == SliceFrom(t, 0, a, b)


---------------------------------------------------------------------------
(* json.loads and the TripPlan schema *)

None == <<>>

Some(v) == <<v>>

\* The members between the braces are complete members, nothing else.
IsJsonObject(s) ==
    /\ Len(s) >= 2
    /\ s[1] = LBrace
    /\ s[Len(s)] = RBrace
    /\ \A i \in 2..(Len(s) - 1) : s[i].k \in MemberKinds /\ s[i] = Member(s[i].k)

\* The kinds of the members of a JSON object, in textual order.
MembersOf(s) == [i \in 1..(Len(s) - 2) |-> s[i + 1].k]

RECURSIVE LastOf(_, _)
\* The last member of one of `kinds`: json.loads keeps the last duplicate key.
LastOf(ms, kinds) ==
    IF ms = <<>> THEN "absent"
    ELSE IF ms[Len(ms)] \in kinds THEN ms[Len(ms)]
    ELSE LastOf(SubSeq(ms, 1, Len(ms) - 1), kinds)

ResultUrls == <<"u1", "", "u2", Null>>

\* json_module.loads(json_str): the dict of a JSON object text.
JsonLoads(s) ==
    LET ms == MembersOf(s)
        c  == LastOf(ms, {"C", "E", "B"})
        r  == LastOf(ms, {"R", "S"})
    IN  [destination |-> IF LastOf(ms, {"D"}) = "D" THEN Some("Paris") ELSE None,
         citations   |-> CASE c = "C" -> Some(<<"c1">>)
                           [] c = "E" -> Some(<<>>)
                           [] OTHER   -> None,
         citations_illtyped |-> c = "B",
         results     |-> CASE r = "R" -> Some(ResultUrls)
                           [] r = "S" -> Some(<<>>)
                           [] OTHER   -> None]

\* TripPlan(**response_data) passes schema validation.
TripPlanValid(d) == d.destination # None /\ ~d.citations_illtyped

\* The TripPlan built from a valid dict; each result is kept as its url.
TripPlan(d) ==
    [destination |-> d.destination[1], citations |-> d.citations, results |-> d.results]

NoPlan == [destination |-> Null, citations |-> None, results |-> None]

\* Python truth of an optional list: neither None nor empty.
Truthy(opt) == opt # None /\ opt[1] # <<>>

\* Fault: the filter `if r.url` is left out.
AllUrls(rs) == rs

RECURSIVE NonEmptyUrls(_)
\* [r.url for r in results if r.url]
NonEmptyUrls(rs) ==
    IF rs = <<>> THEN <<>>
    ELSE IF rs[1] \in {"", Null} THEN NonEmptyUrls(Tail(rs))
    ELSE <<rs[1]>> \o NonEmptyUrls(Tail(rs))

\* Auto-populate citations from the results when there are none.
PopulateCitations(plan) ==
    IF ~Truthy(plan.citations) /\ Truthy(plan.results)
    THEN [plan EXCEPT !.citations = Some(NonEmptyUrls(plan.results[1]))]
    ELSE plan

\* isinstance(e, ValueError): json.JSONDecodeError and pydantic's
\* ValidationError both derive from ValueError.
IsValueError(e) == e \in {"ValueError", "JSONDecodeError", "ValidationError"}

---------------------------------------------------------------------------
(* AgentState: the session state machine *)

Phases == <<"Init", "Received", "Dispatched", "Completed", "Validated">>

PhaseIndex(p) == CHOOSE i \in 1..Len(Phases) : Phases[i] = p

\* advance() is allowed: not after Failed, not past Validated.
CanAdvance(st) == st.phase # "Failed" /\ PhaseIndex(st.phase) < Len(Phases)

\* advance(): the next phase of the fixed sequence.
Advance(st) == [st EXCEPT !.phase = Phases[PhaseIndex(st.phase) + 1]]

\* fail(reason)
Fail(st) == [st EXCEPT !.phase = "Failed"]

\* AgentState()
NewAgentState(id) == [phase |-> "Init", session_id |-> id]

NoState == [phase |-> "Init", session_id |-> 0]

---------------------------------------------------------------------------
(* ShortTermMemory *)

RECURSIVE EstimatedTokens(_)
\* the cheap token estimate: content length / 4, summed over the items
EstimatedTokens(items) ==
    IF items = <<>> THEN 0
    ELSE (TextLen(items[1].content) \div 4) + EstimatedTokens(Tail(items))

RECURSIVE Evict(_, _, _)
\* drop oldest items while over either budget
Evict(items, max_items, max_tokens) ==
    IF items # <<>> /\ (Len(items) > max_items \/ EstimatedTokens(items) > max_tokens)
    THEN Evict(Tail(items), max_items, max_tokens)
    ELSE items

\* ShortTermMemory(max_items, max_tokens)
NewShortTermMemory(id, max_items, max_tokens) ==
    [session_id |-> id, max_items |-> max_items, max_tokens |-> max_tokens,
     items |-> <<>>]

\* memory.add_conversation(role, content)
AddConversation(mem, role, content) ==
    [mem EXCEPT !.items =
        Evict(Append(@, [role |-> role, content |-> content]),
              mem.max_items, mem.max_tokens)]

\* memory.get_conversation_history()
GetConversationHistory(mem) == mem.items

NoMemory == [session_id |-> 0, max_items |-> 0, max_tokens |-> 0, items |-> <<>>]

---------------------------------------------------------------------------
(* The inputs the drivers draw from *)

UserInputs == { <<Prose(12)>>, <<Prose(30), LBrace, Prose(4)>> }

\* Assistant replies of the session harness.
SessionReplies ==
    { <<Prose(620)>>,
      <<Prose(9), LBrace, Member("D"), Member("E"), Member("R"), RBrace, Prose(600)>>,
      <<LBrace, Member("B"), Member("D"), RBrace>> }

PipelineKinds == {"{", "}", "x", "D", "C", "R"}

PipelineRun(k) == IF k \in MemberKinds THEN Member(k) ELSE IF k = "x" THEN Prose(3) ELSE Run(k, 1)

\* Every text of at most MaxTextRuns runs, no two prose runs adjacent.
PipelineTexts ==
    { [i \in 1..Len(ks) |-> PipelineRun(ks[i])] :
        ks \in { q \in UNION { [1..m -> PipelineKinds] : m \in 0..MaxTextRuns } :
                   \A i \in 1..(Len(q) - 1) : ~(q[i] = "x" /\ q[i + 1] = "x") } }

\* The assistant texts the completion service may return to this driver.
Replies == IF harness = "pipeline" THEN PipelineTexts ELSE SessionReplies

---------------------------------------------------------------------------
(* run_request *)

\* Program constants of run_request.
MemoryMaxItems == 10

MemoryMaxTokens == 4000

ReplyKeep == 500

\* importance scores, in tenths
UserImportance == 5

AssistantImportance == 6

SystemMessage == [role |-> "system", content |-> <<Prose(3500)>>]

Event(e, a) == [ev |-> e, arg |-> a]

NoEnvelope ==
    [keys |-> {}, trip_plan |-> NoPlan, raw_response |-> <<>>, error |-> "",
     status |-> "", metadata |-> [keys |-> {}, session_id |-> 0,
       tools_called |-> <<>>, data_quality |-> "", memory_items |-> 0,
       parse_error |-> "", validation_error |-> ""]]

\* The caller keeps the object it passed: a change to it is a change it sees.
Synced(mem) == IF shared THEN mem ELSE callerMem

\* The positions inside the parse-and-validate try block (lines 266-302).
InnerTry == {"extract_json", "validate", "advance4", "return_validated"}

\* Fault: the outer try opens after the start-up steps (lines 87-88).
EnclosingAfterStartup(here) ==
    IF here \in InnerTry THEN "inner_except"
    ELSE IF here \in {"validate_config", "create_kernel"} THEN "escaped"
    ELSE "outer_except"

\* The handler an exception raised at position `here` reaches: the inner
\* handlers (lines 304-336) from inside the inner try block, the outer
\* handler (lines 338-340) from anywhere else in the body (lines 86-336).
Enclosing(here) == IF here \in InnerTry THEN "inner_except" ELSE "outer_except"

\* An exception leaves the step for the handler that encloses it.
Raise(e) ==
    /\ pc' = Enclosing(pc)
    /\ exc' = e
    /\ trace' = Append(trace, Event("raised", e))

\* A caller invokes run_request(user_input, memory, long_term_memory).
StartRequest ==
    /\ harness \in {"session", "pipeline"}
    /\ pc \in {"idle", "returned"}
    /\ reqCount < (IF harness = "session" THEN MaxRequests ELSE 1)
    /\ \E u \in UserInputs, sh \in BOOLEAN :
          /\ harness = "pipeline" => (u = <<Prose(12)>> /\ ~sh)
          /\ user_input' = u
          /\ shared' = sh
          /\ memory' = IF sh THEN callerMem ELSE NoMemory
    /\ reqCount' = reqCount + 1
    /\ pc' = "validate_config"
    /\ state' = NoState
    /\ chat_history' = <<>>
    /\ submitted' = <<>>
    /\ response' = <<>>
    /\ response_data' = JsonLoads(<<LBrace, RBrace>>)
    /\ agent_response' = <<>>
    /\ trip_plan' = NoPlan
    /\ exc' = "none"
    /\ envelope' = NoEnvelope
    /\ returns' = 0
    /\ ltmFailed' = {}
    /\ trace' = <<>>
    /\ atStart' = [callerMem |-> callerMem, ltmStore |-> ltmStore]
    /\ UNCHANGED <<otherVars, harness, ltmPresent, callerMem, ltmStore, nextId, sm, smCalls, smRaised>>

\* Fault: the configuration is validated after the user message was appended.
ValidateConfigAfterAppend ==
    /\ pc = "validate_config"
    /\ \E ok \in BOOLEAN :
          IF ok THEN /\ pc' = "create_kernel"
                     /\ exc' = exc
                     /\ trace' = Append(trace, Event("config_ok", ""))
                     /\ UNCHANGED <<memory, callerMem>>
          ELSE LET new == AddConversation(IF shared THEN memory ELSE NoMemory,
                                          "user", user_input)
               IN  /\ Raise("ConfigError")
                   /\ memory' = new
                   /\ callerMem' = Synced(new)
    /\ UNCHANGED <<otherVars, harness, reqCount, user_input, shared, ltmPresent,
                   state, chat_history, submitted, response, response_data,
                   agent_response, trip_plan, envelope, returns, ltmStore,
                   ltmFailed, nextId, sm, smCalls, smRaised, atStart>>

\* line 87: validate_all_config()
ValidateConfig ==
    /\ pc = "validate_config"
    /\ \E ok \in BOOLEAN :
          IF ok THEN /\ pc' = "create_kernel"
                     /\ exc' = exc
                     /\ trace' = Append(trace, Event("config_ok", ""))
          ELSE Raise("ConfigError")
    /\ UNCHANGED <<otherVars, harness, reqCount, user_input, shared, ltmPresent, callerMem,
                   memory, state, chat_history, submitted, response, response_data, agent_response,
                   trip_plan, envelope, returns, ltmStore, ltmFailed, nextId,
                   sm, smCalls, smRaised, atStart>>

\* line 88: kernel = create_kernel()
CreateKernel ==
    /\ pc = "create_kernel"
    /\ \E ok \in BOOLEAN :
          IF ok THEN /\ pc' = "init_state"
                     /\ exc' = exc
                     /\ trace' = Append(trace, Event("kernel_ok", ""))
          ELSE Raise("KernelError")
    /\ UNCHANGED <<otherVars, harness, reqCount, user_input, shared, ltmPresent, callerMem,
                   memory, state, chat_history, submitted, response, response_data, agent_response,
                   trip_plan, envelope, returns, ltmStore, ltmFailed, nextId,
                   sm, smCalls, smRaised, atStart>>

\* line 91: state = AgentState()
InitState ==
    /\ pc = "init_state"
    /\ state' = NewAgentState(nextId)
    /\ nextId' = nextId + 1
    /\ pc' = "add_user"
    /\ trace' = Append(trace, Event("state_init", "Init"))
    /\ UNCHANGED <<otherVars, harness, reqCount, user_input, shared, ltmPresent, callerMem,
                   memory, chat_history, submitted, response, response_data, agent_response,
                   trip_plan, exc, envelope, returns, ltmStore, ltmFailed,
                   sm, smCalls, smRaised, atStart>>

\* Fault: the memory is defaulted but the user message is not appended.
AddUserMessageNotAppending ==
    /\ pc = "add_user"
    /\ \E ok \in BOOLEAN :
          IF ok
          THEN LET new == IF shared THEN memory
                          ELSE NewShortTermMemory(nextId, MemoryMaxItems, MemoryMaxTokens)
               IN  /\ memory' = new
                   /\ callerMem' = Synced(new)
                   /\ nextId' = IF shared THEN nextId ELSE nextId + 1
                   /\ pc' = "ltm_user"
                   /\ exc' = exc
                   /\ trace' = Append(trace, Event("stm_user", ""))
          ELSE /\ Raise("MemoryError")
               /\ UNCHANGED <<memory, callerMem, nextId>>
    /\ UNCHANGED <<otherVars, harness, reqCount, user_input, shared, ltmPresent, state,
                   chat_history, submitted, response, response_data, agent_response,
                   trip_plan, envelope, returns, ltmStore, ltmFailed,
                   sm, smCalls, smRaised, atStart>>

\* lines 95-97: default the memory, then memory.add_conversation("user", user_input)
AddUserMessage ==
    /\ pc = "add_user"
    /\ \E ok \in BOOLEAN :
          IF ok
          THEN LET mem == IF shared THEN memory
                          ELSE NewShortTermMemory(nextId, MemoryMaxItems, MemoryMaxTokens)
                   new == AddConversation(mem, "user", user_input)
               IN  /\ memory' = new
                   /\ callerMem' = Synced(new)
                   /\ nextId' = IF shared THEN nextId ELSE nextId + 1
                   /\ pc' = "ltm_user"
                   /\ exc' = exc
                   /\ trace' = Append(trace, Event("stm_user", ""))
          ELSE /\ Raise("MemoryError")
               /\ UNCHANGED <<memory, callerMem, nextId>>
    /\ UNCHANGED <<otherVars, harness, reqCount, user_input, shared, ltmPresent, state,
                   chat_history, submitted, response, response_data, agent_response, trip_plan,
                   envelope, returns, ltmStore, ltmFailed, sm, smCalls, smRaised, atStart>>

\* A record as long_term_memory.add_memory stores it.
LongTermRecord(content, score, tag) ==
    [session_id |-> memory.session_id, content |-> content,
     memory_type |-> "conversation", importance_score |-> score, tags |-> {tag}]

\* Fault: add_memory is awaited outside any try of its own.
LongTermWriteUnguarded(content, score, tag, event, next) ==
    /\ IF ltmPresent
       THEN \E ok \in BOOLEAN :
               IF ok THEN /\ ltmStore' = Append(ltmStore, LongTermRecord(content, score, tag))
                          /\ ltmFailed' = ltmFailed
                          /\ pc' = next
                          /\ exc' = exc
                          /\ trace' = Append(trace, Event(event, "ok"))
               ELSE /\ ltmStore' = ltmStore
                    /\ ltmFailed' = ltmFailed \cup {tag}
                    /\ Raise("LongTermWriteError")
       ELSE /\ pc' = next
            /\ exc' = exc
            /\ trace' = Append(trace, Event(event, "skipped"))
            /\ UNCHANGED <<ltmStore, ltmFailed>>
    /\ UNCHANGED <<otherVars, harness, reqCount, user_input, shared, ltmPresent, callerMem,
                   memory, state, chat_history, submitted, response, response_data,
                   agent_response, trip_plan, envelope, returns, nextId,
                   sm, smCalls, smRaised, atStart>>

\* One best-effort write: try add_memory, except Exception: log and go on.
LongTermWrite(content, score, tag, event, next) ==
    /\ pc' = next
    /\ IF ltmPresent
       THEN \E ok \in BOOLEAN :
               IF ok THEN /\ ltmStore' = Append(ltmStore, LongTermRecord(content, score, tag))
                          /\ ltmFailed' = ltmFailed
                          /\ trace' = Append(trace, Event(event, "ok"))
               ELSE /\ ltmStore' = ltmStore
                    /\ ltmFailed' = ltmFailed \cup {tag}
                    /\ trace' = Append(trace, Event(event, "failed"))
       ELSE /\ trace' = Append(trace, Event(event, "skipped"))
            /\ UNCHANGED <<ltmStore, ltmFailed>>
    /\ UNCHANGED <<otherVars, harness, reqCount, user_input, shared, ltmPresent, callerMem,
                   memory, state, chat_history, submitted, response, response_data, agent_response,
                   trip_plan, exc, envelope, returns, nextId, sm, smCalls, smRaised, atStart>>

\* lines 100-110: mirror the user input into long-term memory
StoreUserLongTerm ==
    /\ pc = "ltm_user"
    /\ LongTermWrite(user_input, UserImportance, "user_input", "ltm_user", "advance1")

\* state.advance() at `here`; InvalidTransition goes to the enclosing handler.
AdvanceStep(here, next) ==
    /\ pc = here
    /\ IF CanAdvance(state)
       THEN /\ state' = Advance(state)
            /\ pc' = next
            /\ exc' = exc
            /\ trace' = Append(trace, Event("advance", Advance(state).phase))
       ELSE /\ Raise("InvalidTransition")
            /\ state' = state
    /\ UNCHANGED <<otherVars, harness, reqCount, user_input, shared, ltmPresent, callerMem,
                   memory, chat_history, submitted, response, response_data, agent_response,
                   trip_plan, envelope, returns, ltmStore, ltmFailed, nextId,
                   sm, smCalls, smRaised, atStart>>

\* line 112
Advance1 == AdvanceStep("advance1", "build_history")

RECURSIVE HistoryMessages(_)
\* lines 217-221: the memory's items of role user or assistant, as messages
HistoryMessages(items) ==
    IF items = <<>> THEN <<>>
    ELSE IF items[1].role \in {"user", "assistant"}
         THEN <<[role |-> items[1].role, content |-> items[1].content]>>
                  \o HistoryMessages(Tail(items))
         ELSE HistoryMessages(Tail(items))

\* lines 117-230: system message, the memory's history, then user_input
BuildHistory ==
    /\ pc = "build_history"
    /\ chat_history' = <<SystemMessage>>
                         \o HistoryMessages(GetConversationHistory(memory))
                         \o <<[role |-> "user", content |-> user_input]>>
    /\ pc' = "advance2"
    /\ trace' = Append(trace, Event("history_built", ""))
    /\ UNCHANGED <<otherVars, harness, reqCount, user_input, shared, ltmPresent, callerMem,
                   memory, state, submitted, response, response_data, agent_response,
                   trip_plan, exc, envelope, returns, ltmStore, ltmFailed, nextId,
                   sm, smCalls, smRaised, atStart>>

\* line 232
Advance2 == AdvanceStep("advance2", "call_completion")

\* Fault: the advance of line 243 stands before the await, so the phase
\* moves on as the call is issued.
CallCompletionThenAdvance ==
    /\ pc = "call_completion"
    /\ submitted' = chat_history
    /\ state' = Advance(state)
    /\ pc' = "await_completion"
    /\ trace' = Append(Append(trace, Event("completion_issued", "")),
                       Event("advance", Advance(state).phase))
    /\ UNCHANGED <<otherVars, harness, reqCount, user_input, shared, ltmPresent, callerMem,
                   memory, chat_history, response, response_data,
                   agent_response, trip_plan, exc, envelope, returns, ltmStore,
                   ltmFailed, nextId, sm, smCalls, smRaised, atStart>>

\* line 237: chat_service.get_chat_message_contents(...) is issued
CallCompletion ==
    /\ pc = "call_completion"
    /\ submitted' = chat_history
    /\ pc' = "await_completion"
    /\ trace' = Append(trace, Event("completion_issued", ""))
    /\ UNCHANGED <<otherVars, harness, reqCount, user_input, shared, ltmPresent, callerMem,
                   memory, state, chat_history, response, response_data,
                   agent_response, trip_plan, exc, envelope, returns, ltmStore,
                   ltmFailed, nextId, sm, smCalls, smRaised, atStart>>

\* lines 237-241: the awaited call returns the assistant message
CompletionReturns ==
    /\ pc = "await_completion"
    /\ \E text \in Replies : response' = <<text>>
    /\ pc' = "advance3"
    /\ trace' = Append(trace, Event("completion_returned", ""))
    /\ UNCHANGED <<otherVars, harness, reqCount, user_input, shared, ltmPresent, callerMem,
                   memory, state, chat_history, submitted, response_data,
                   agent_response, trip_plan, exc, envelope, returns, ltmStore,
                   ltmFailed, nextId, sm, smCalls, smRaised, atStart>>

\* lines 237-241: the awaited call raises
CompletionFails ==
    /\ pc = "await_completion"
    /\ Raise("CompletionError")
    /\ UNCHANGED <<otherVars, harness, reqCount, user_input, shared, ltmPresent, callerMem,
                   memory, state, chat_history, submitted, response, response_data,
                   agent_response, trip_plan, envelope, returns, ltmStore, ltmFailed,
                   nextId, sm, smCalls, smRaised, atStart>>

\* line 243
Advance3 == AdvanceStep("advance3", "read_response")

\* lines 246-247: agent_response = response[0].content
ReadResponse ==
    /\ pc = "read_response"
    /\ agent_response' = response[1]
    /\ pc' = "save_assistant"
    /\ trace' = Append(trace, Event("response_read", ""))
    /\ UNCHANGED <<otherVars, harness, reqCount, user_input, shared, ltmPresent, callerMem,
                   memory, state, chat_history, submitted, response, response_data,
                   trip_plan, exc, envelope, returns, ltmStore, ltmFailed, nextId,
                   sm, smCalls, smRaised, atStart>>

\* Fault: the reply is stored whole.
KeptWhole(text) == text

\* agent_response[:500]
Kept(text) == Slice(text, 0, ReplyKeep)

\* Fault: the reply is inserted at the head of the memory's list instead of
\* being added through add_conversation.
SaveAssistantAtHead ==
    /\ pc = "save_assistant"
    /\ LET new == [memory EXCEPT !.items =
                      <<[role |-> "assistant", content |-> Kept(agent_response)]>> \o @]
       IN  /\ memory' = new
           /\ callerMem' = Synced(new)
           /\ pc' = "ltm_assistant"
           /\ trace' = Append(trace, Event("stm_assistant", ""))
    /\ UNCHANGED <<otherVars, harness, reqCount, user_input, shared, ltmPresent, state,
                   chat_history, submitted, response, response_data, agent_response,
                   trip_plan, exc, envelope, returns, ltmStore, ltmFailed, nextId,
                   sm, smCalls, smRaised, atStart>>

\* line 250: memory.add_conversation("assistant", agent_response[:500])
SaveAssistant ==
    /\ pc = "save_assistant"
    /\ \E ok \in BOOLEAN :
          IF ok
          THEN LET new == AddConversation(memory, "assistant", Kept(agent_response))
               IN  /\ memory' = new
                   /\ callerMem' = Synced(new)
                   /\ pc' = "ltm_assistant"
                   /\ exc' = exc
                   /\ trace' = Append(trace, Event("stm_assistant", ""))
          ELSE /\ Raise("MemoryError")
               /\ UNCHANGED <<memory, callerMem>>
    /\ UNCHANGED <<otherVars, harness, reqCount, user_input, shared, ltmPresent, state,
                   chat_history, submitted, response, response_data, agent_response,
                   trip_plan, envelope, returns, ltmStore, ltmFailed, nextId,
                   sm, smCalls, smRaised, atStart>>

\* lines 253-263: mirror the assistant reply into long-term memory
StoreAssistantLongTerm ==
    /\ pc = "ltm_assistant"
    /\ LongTermWrite(Kept(agent_response), AssistantImportance,
                     "assistant_response", "ltm_assistant", "extract_json")

\* Fault: find is used for the closing brace as well (the first "}").
ExtractToFirstClose(text) ==
    LET json_start == Find(text, "{")
        json_end   == Find(text, "}") + 1
    IN  IF json_start = -1 \/ json_end = 0
        THEN [found |-> FALSE, json_str |-> <<>>]
        ELSE [found |-> TRUE, json_str |-> Slice(text, json_start, json_end)]

\* lines 268-274: the text from the first "{" to the last "}"
\* [found: a brace pair was looked up successfully, json_str]
Extract(text) ==
    LET json_start == Find(text, "{")
        json_end   == RFind(text, "}") + 1
    IN  IF json_start = -1 \/ json_end = 0
        THEN [found |-> FALSE, json_str |-> <<>>]
        ELSE [found |-> TRUE, json_str |-> Slice(text, json_start, json_end)]

\* lines 268-277: extract the JSON text and parse it
ExtractJson ==
    /\ pc = "extract_json"
    /\ LET x == Extract(agent_response)
       IN  IF ~x.found
           THEN /\ Raise("ValueError")
                /\ response_data' = response_data
           ELSE IF ~IsJsonObject(x.json_str)
           THEN /\ Raise("JSONDecodeError")
                /\ response_data' = response_data
           ELSE /\ response_data' = JsonLoads(x.json_str)
                /\ pc' = "validate"
                /\ exc' = exc
                /\ trace' = Append(trace, Event("json_parsed", ""))
    /\ UNCHANGED <<otherVars, harness, reqCount, user_input, shared, ltmPresent, callerMem,
                   memory, state, chat_history, submitted, response, agent_response,
                   trip_plan, envelope, returns, ltmStore, ltmFailed, nextId,
                   sm, smCalls, smRaised, atStart>>

\* lines 280-286: validate with the TripPlan model, then repair the citations
ValidatePlan ==
    /\ pc = "validate"
    /\ IF TripPlanValid(response_data)
       THEN /\ trip_plan' = PopulateCitations(TripPlan(response_data))
            /\ pc' = "advance4"
            /\ exc' = exc
            /\ trace' = Append(trace, Event("schema_validated", ""))
       ELSE /\ Raise("ValidationError")
            /\ trip_plan' = trip_plan
    /\ UNCHANGED <<otherVars, harness, reqCount, user_input, shared, ltmPresent, callerMem,
                   memory, state, chat_history, submitted, response, response_data,
                   agent_response, envelope, returns, ltmStore, ltmFailed, nextId,
                   sm, smCalls, smRaised, atStart>>

\* Fault: the advance of line 288 is left out.
Advance4Skipped ==
    /\ pc = "advance4"
    /\ pc' = "return_validated"
    /\ UNCHANGED <<otherVars, harness, reqCount, user_input, shared, ltmPresent, callerMem,
                   memory, state, chat_history, submitted, response, response_data,
                   agent_response, trip_plan, exc, envelope, returns, ltmStore,
                   ltmFailed, trace, nextId, sm, smCalls, smRaised, atStart>>

\* line 288
Advance4 == AdvanceStep("advance4", "return_validated")

Metadata(quality) ==
    [keys |-> {"session_id", "tools_called", "data_quality"},
     session_id |-> state.session_id, tools_called |-> <<"automatic_via_llm">>,
     data_quality |-> quality, memory_items |-> 0, parse_error |-> "",
     validation_error |-> ""]

\* lines 292-300
ValidatedEnvelope ==
    [NoEnvelope EXCEPT
        !.keys = {"trip_plan", "metadata"},
        !.trip_plan = trip_plan,
        !.metadata = [Metadata("validated_with_pydantic") EXCEPT
                        !.keys = @ \cup {"memory_items"},
                        !.memory_items = Len(GetConversationHistory(memory))]]

\* Fault: the fallback returns the reply as it was cut for the memory.
ParseFallbackTruncated(e) ==
    [NoEnvelope EXCEPT
        !.keys = {"raw_response", "metadata"},
        !.raw_response = Kept(agent_response),
        !.metadata = [Metadata("unvalidated") EXCEPT
                        !.keys = @ \cup {"parse_error"}, !.parse_error = e]]

\* lines 309-317
ParseFallbackEnvelope(e) ==
    [NoEnvelope EXCEPT
        !.keys = {"raw_response", "metadata"},
        !.raw_response = agent_response,
        !.metadata = [Metadata("unvalidated") EXCEPT
                        !.keys = @ \cup {"parse_error"}, !.parse_error = e]]

\* lines 326-334
SchemaFallbackEnvelope(e) ==
    [NoEnvelope EXCEPT
        !.keys = {"raw_response", "metadata"},
        !.raw_response = agent_response,
        !.metadata = [Metadata("validation_failed") EXCEPT
                        !.keys = @ \cup {"validation_error"}, !.validation_error = e]]

\* line 340
FailedEnvelope(e) ==
    [NoEnvelope EXCEPT !.keys = {"error", "status"}, !.error = e, !.status = "failed"]

\* return json.dumps(result)
Return(result) ==
    /\ envelope' = result
    /\ returns' = returns + 1
    /\ pc' = "returned"
    /\ exc' = "none"
    /\ trace' = Append(trace, Event("return", ""))
    /\ UNCHANGED <<otherVars, harness, reqCount, user_input, shared, ltmPresent, callerMem,
                   memory, state, chat_history, submitted, response, response_data,
                   agent_response, trip_plan, ltmStore, ltmFailed, nextId,
                   sm, smCalls, smRaised, atStart>>

\* lines 291-302
ReturnValidated ==
    /\ pc = "return_validated"
    /\ Return(ValidatedEnvelope)

\* lines 304 and 321: the first except clause that matches the exception
InnerHandler(e) == IF IsValueError(e) THEN "parse_fallback" ELSE "schema_fallback"

\* lines 304-336: the handlers of the parse-and-validate block
InnerExcept ==
    /\ pc = "inner_except"
    /\ Return(IF InnerHandler(exc) = "parse_fallback"
              THEN ParseFallbackEnvelope(exc)
              ELSE SchemaFallbackEnvelope(exc))

\* lines 338-340: the handler of the whole body
OuterExcept ==
    /\ pc = "outer_except"
    /\ Return(FailedEnvelope(exc))

---------------------------------------------------------------------------
(* The machine driver: a caller exercising an AgentState of its own *)

SmAdvance ==
    /\ harness = "machine"
    /\ smCalls < MaxAdvanceCalls
    /\ smCalls' = smCalls + 1
    /\ IF CanAdvance(sm)
       THEN sm' = Advance(sm) /\ smRaised' = smRaised
       ELSE sm' = sm /\ smRaised' = smRaised + 1
    /\ UNCHANGED <<otherVars, harness, pc, reqCount, user_input, shared, ltmPresent, callerMem,
                   memory, state, chat_history, submitted, response, response_data,
                   agent_response, trip_plan, exc, envelope, returns, ltmStore,
                   ltmFailed, trace, nextId, atStart>>

SmFail ==
    /\ harness = "machine"
    /\ sm.phase # "Failed"
    /\ sm' = Fail(sm)
    /\ UNCHANGED <<otherVars, harness, pc, reqCount, user_input, shared, ltmPresent, callerMem,
                   memory, state, chat_history, submitted, response, response_data,
                   agent_response, trip_plan, exc, envelope, returns, ltmStore,
                   ltmFailed, trace, nextId, smCalls, smRaised, atStart>>

---------------------------------------------------------------------------
(* The memory driver: a caller adding to a ShortTermMemory of its own *)

\* The budgets (max_items, max_tokens) the driver constructs memories with;
\* the last is run_request's (line 96).
StmBudgets == { <<2, 4000>>, <<10, 12>>, <<MemoryMaxItems, MemoryMaxTokens>> }

\* The contents it adds: 2, 5 and 4100 estimated tokens.
StmContents == { <<Prose(8)>>, <<Prose(20)>>, <<Prose(16400)>> }

\* memory.add_conversation(role, content), as lines 97 and 250 call it
StmAdd ==
    /\ harness = "memory"
    /\ Len(stmLog) < MaxAppends
    /\ \E role \in {"user", "assistant"}, c \in StmContents :
          /\ stm' = AddConversation(stm, role, c)
          /\ stmLog' = Append(stmLog, [role |-> role, content |-> c])
    /\ UNCHANGED <<harness, requestVars, ragVars, weatherVars, fxVars, searchVars>>

---------------------------------------------------------------------------
(* rag/retriever.py: embed_texts and retrieve *)

\* Elements a provider may put in a vector: floats, a string that float()
\* accepts, a string it rejects, and None.
Floats == {"0.1", "0.2"}

NumericStrings == {"'1.5'"}

VectorElements == Floats \cup NumericStrings \cup {"'abc'", Null}

\* What the embedding side does for one text: create_embedding_kernel gives
\* None, generate_embeddings raises, it returns an empty result list, a
\* result whose first entry is not iterable, or a result holding a vector.
ProviderOutcome(kind, vector) == [kind |-> kind, vector |-> vector]

ProviderVectors ==
    { <<>>, <<"0.1", "0.2">>, <<"0.1", "'abc'">>, <<"0.2", Null>>, <<"'1.5'">> }

ProviderOutcomes ==
    { ProviderOutcome(kd, <<>>) :
        kd \in {"kernel_failed", "raises", "empty_result", "not_iterable"} }
    \cup { ProviderOutcome("vector", v) : v \in ProviderVectors }

NoOutcome == ProviderOutcome("none", <<>>)

\* Fault: a provider failure is swallowed and an empty list returned.
EmbedTextsSwallowing(o) ==
    [raised |-> FALSE, value |-> IF o.kind = "vector" THEN <<o.vector>> ELSE <<>>]

\* embed_texts([text]) (lines 45-65): the list holding list(result[0]); any
\* exception on the way is raised again as Exception.
EmbedTexts(o) ==
    IF o.kind = "vector"
    THEN [raised |-> FALSE, value |-> <<o.vector>>]
    ELSE [raised |-> TRUE, value |-> <<>>]

\* float(x) succeeds
FloatOk(x) == x \in Floats \cup NumericStrings

\* float(x)
ToFloat(x) == IF x = "'1.5'" THEN "1.5" ELSE x

\* if partition_key: (line 87)
PartitionGiven(p) == p \notin {Null, ""}

Partitions == {"cards", "lounges"}

\* The stored documents; a document's id is its index.  `distance` is
\* VectorDistance(c.embedding, @queryVector), `embedding` says whether
\* c.embedding is defined and an array.
StoredDocs == [pk : Partitions, distance : {1, 2}, embedding : BOOLEAN]

Containers == UNION { [1..n -> StoredDocs] : n \in 0..MaxDocs }

\* SELECT c.id, c.text, c.pk, VectorDistance(...) as distance
Row(docs, i) == [id |-> i, pk |-> docs[i].pk, distance |-> docs[i].distance]

\* WHERE IS_DEFINED(c.embedding) AND IS_ARRAY(c.embedding) [AND c.pk = @pk]
Selected(docs, p) ==
    { i \in DOMAIN docs :
        docs[i].embedding /\ (PartitionGiven(p) => docs[i].pk = p) }

\* Fault: the query carries no TOP @k.
QueryItemsUntruncated(docs, topk, p) ==
    LET sel == Selected(docs, p)
    IN  { [j \in 1..Len(q) |-> Row(docs, q[j])] :
            q \in { f \in [1..Cardinality(sel) -> sel] :
                      /\ \A a, b \in DOMAIN f : a < b => f[a] # f[b]
                      /\ \A a, b \in DOMAIN f :
                            a < b => docs[f[a]].distance <= docs[f[b]].distance } }

\* container.query_items(sql, params) (lines 87-119): SELECT TOP @k ... ORDER
\* BY VectorDistance: the k nearest selected documents in ascending order,
\* ties in any order.
QueryItems(docs, topk, p) ==
    LET sel == Selected(docs, p)
        n   == Min(topk, Cardinality(sel))
    IN  { [j \in 1..Len(q) |-> Row(docs, q[j])] :
            q \in { f \in [1..n -> sel] :
                      /\ \A a, b \in DOMAIN f : a < b => f[a] # f[b]
                      /\ \A a, b \in DOMAIN f :
                            a < b => docs[f[a]].distance <= docs[f[b]].distance
                      /\ \A a \in DOMAIN f, i \in sel :
                            (\A b \in DOMAIN f : f[b] # i) =>
                                docs[f[a]].distance <= docs[i].distance } }

\* Fault: the handler of retrieve catches ValueError only.
CaughtValueErrorOnly(e) == e = "ValueError"

\* except Exception (line 128) catches every exception raised in the body.
Caught(e) == TRUE

\* An exception raised in the body of retrieve (lines 69-127).
RetrieveRaise(e) ==
    /\ failure' = e
    /\ rpc' = IF Caught(e) THEN "except" ELSE "escaped"

\* retrieve(query, k, partition_key) is called.
RetrieveStart ==
    /\ harness = "retrieval"
    /\ rpc = "idle"
    /\ \E kk \in 0..MaxK, p \in {Null, ""} \cup Partitions :
          /\ arg_k' = kk
          /\ partition_key' = p
    /\ rpc' = "get_client"
    /\ UNCHANGED <<container, provided, query_embedding, query_vector, query_results,
                   retrieved, failure>>
    /\ UNCHANGED <<harness, requestVars, memVars, weatherVars, fxVars, searchVars>>

\* lines 70-72
GetCosmosClient ==
    /\ rpc = "get_client"
    /\ \E ok \in BOOLEAN :
          IF ok THEN rpc' = "embed" /\ failure' = failure
          ELSE RetrieveRaise("CosmosUnavailable")
    /\ UNCHANGED <<arg_k, partition_key, container, provided, query_embedding,
                   query_vector, query_results, retrieved>>
    /\ UNCHANGED <<harness, requestVars, memVars, weatherVars, fxVars, searchVars>>

\* line 76: query_embedding = await embed_texts([query])
EmbedQuery ==
    /\ rpc = "embed"
    /\ \E o \in ProviderOutcomes :
          /\ provided' = o
          /\ IF EmbedTexts(o).raised
             THEN /\ RetrieveRaise("EmbeddingError")
                  /\ query_embedding' = query_embedding
             ELSE /\ query_embedding' = EmbedTexts(o).value
                  /\ rpc' = "check_vector"
                  /\ failure' = failure
    /\ UNCHANGED <<arg_k, partition_key, container, query_vector, query_results, retrieved>>
    /\ UNCHANGED <<harness, requestVars, memVars, weatherVars, fxVars, searchVars>>

\* lines 77-83: take the first vector; an empty one is a ValueError
CheckVector ==
    /\ rpc = "check_vector"
    /\ LET v == IF query_embedding # <<>> THEN query_embedding[1] ELSE <<>>
       IN  /\ query_vector' = v
           /\ IF v = <<>> THEN RetrieveRaise("ValueError")
              ELSE rpc' = "convert" /\ failure' = failure
    /\ UNCHANGED <<arg_k, partition_key, container, provided, query_embedding,
                   query_results, retrieved>>
    /\ UNCHANGED <<harness, requestVars, memVars, weatherVars, fxVars, searchVars>>

\* line 85: query_vector = [float(x) for x in query_vector]
ConvertVector ==
    /\ rpc = "convert"
    /\ IF \A i \in DOMAIN query_vector : FloatOk(query_vector[i])
       THEN /\ query_vector' = [i \in DOMAIN query_vector |-> ToFloat(query_vector[i])]
            /\ rpc' = "query"
            /\ failure' = failure
       ELSE /\ RetrieveRaise(IF \E i \in DOMAIN query_vector : query_vector[i] = Null
                                   /\ \A j \in 1..(i - 1) : FloatOk(query_vector[j])
                             THEN "TypeError" ELSE "ValueError")
            /\ query_vector' = query_vector
    /\ UNCHANGED <<arg_k, partition_key, container, provided, query_embedding,
                   query_results, retrieved>>
    /\ UNCHANGED <<harness, requestVars, memVars, weatherVars, fxVars, searchVars>>

\* lines 87-119: query_results = list(container.query_items(...))
RunQuery ==
    /\ rpc = "query"
    /\ \E ok \in BOOLEAN :
          IF ok
          THEN /\ container' \in Containers
               /\ query_results' \in QueryItems(container', arg_k, partition_key)
               /\ rpc' = "log_results"
               /\ failure' = failure
          ELSE /\ RetrieveRaise("CosmosHttpResponseError")
               /\ UNCHANGED <<container, query_results>>
    /\ UNCHANGED <<arg_k, partition_key, provided, query_embedding,
                   query_vector, retrieved>>
    /\ UNCHANGED <<harness, requestVars, memVars, weatherVars, fxVars, searchVars>>

\* lines 121-127: print the rows, return query_results
ReturnResults ==
    /\ rpc = "log_results"
    /\ retrieved' = query_results
    /\ rpc' = "returned"
    /\ UNCHANGED <<arg_k, partition_key, container, provided, query_embedding,
                   query_vector, query_results, failure>>
    /\ UNCHANGED <<harness, requestVars, memVars, weatherVars, fxVars, searchVars>>

\* lines 128-130: return []
RetrieveExcept ==
    /\ rpc = "except"
    /\ retrieved' = <<>>
    /\ rpc' = "returned"
    /\ UNCHANGED <<arg_k, partition_key, container, provided, query_embedding,
                   query_vector, query_results, failure>>
    /\ UNCHANGED <<harness, requestVars, memVars, weatherVars, fxVars, searchVars>>

\* retrieve has not been called.
RetrieveIdle ==
    /\ rpc = "idle"
    /\ arg_k = 0
    /\ partition_key = Null
    /\ container = <<>>
    /\ provided = NoOutcome
    /\ query_embedding = <<>>
    /\ query_vector = <<>>
    /\ query_results = <<>>
    /\ retrieved = <<>>
    /\ failure = "none"

---------------------------------------------------------------------------
(* tools/weather.py: WeatherTools.get_weather *)

\* What a requests.get(...), raise_for_status(), json() sequence can do
\* besides delivering a body.  A body that is not JSON makes json() raise
\* requests' JSONDecodeError, a RequestException in current releases and a
\* plain ValueError in older ones: either handler may get it.
RequestFailures == {"timeout", "connection_error", "http_error", "invalid_json"}

HandlersOf(kind) ==
    IF kind = "invalid_json" THEN {"RequestException", "Exception"}
    ELSE {"RequestException"}

\* Bodies of the geocoding API: without a "results" key, with an empty
\* list, with a first result lacking "latitude", not a mapping at all
\* (a number), or with a usable first result, named or not.
GeocodeBodies ==
    {"no_results_key", "empty_results", "missing_latitude", "not_a_mapping",
     "found_named", "found_unnamed"}

\* Temperatures are in tenths of a degree; the lists are such that the
\* averages of lines 71-73 are whole tenths.
DailyTemperatures ==
    { [max |-> <<>>, min |-> <<>>],
      [max |-> <<120, 140>>, min |-> <<>>],
      [max |-> <<120, 140>>, min |-> <<60, 80>>],
      [max |-> <<80, 60>>, min |-> <<20, 0>>],
      [max |-> <<360>>, min |-> <<300>>] }

WeatherCodes == {0, 1, 2, 3, 50, 51}

SpecExampleCodes == <<0, 0, 2, 2, 2, 60, 60>>

\* The weathercode lists of a forecast: every list of at most MaxCodes
\* codes, and the week of the specification's example.
CodeLists ==
    UNION { [1..n -> WeatherCodes] : n \in 0..MaxCodes } \cup {SpecExampleCodes}

NoForecast == [kind |-> "none", temps |-> [max |-> <<>>, min |-> <<>>], codes |-> <<>>]

\* Bodies of the forecast API: not a mapping (a list), or a mapping with
\* its "daily" block.
ForecastBodies ==
    { [kind |-> "not_a_mapping", temps |-> [max |-> <<>>, min |-> <<>>], codes |-> <<>>] }
    \cup { [kind |-> "daily", temps |-> t, codes |-> c] :
             t \in DailyTemperatures, c \in CodeLists }

RECURSIVE SumOf(_)
SumOf(xs) == IF xs = <<>> THEN 0 ELSE xs[1] + SumOf(Tail(xs))

\* Fault: the rainy threshold includes code 50.
InterpretCodeRainyFrom50(code) ==
    IF code <= 1 THEN "sunny"
    ELSE IF code <= 3 THEN "cloudy"
    ELSE IF code >= 50 THEN "rainy"
    ELSE "mixed"

\* interpret_code (lines 77-85)
InterpretCode(code) ==
    IF code <= 1 THEN "sunny"
    ELSE IF code <= 3 THEN "cloudy"
    ELSE IF code > 50 THEN "rainy"
    ELSE "mixed"

\* condition_counts[c] after the loop of lines 90-91
ConditionCount(conds, c) == Cardinality({i \in DOMAIN conds : conds[i] = c})

\* The position at which the key c was inserted into condition_counts.
FirstSeen(conds, c) == CHOOSE i \in DOMAIN conds :
                          conds[i] = c /\ \A j \in 1..(i - 1) : conds[j] # c

\* max(condition_counts, key=condition_counts.get) (line 92): the first key,
\* in insertion order, whose count is the largest.
DominantCondition(conds) ==
    LET keys == {conds[i] : i \in DOMAIN conds}
        top  == {c \in keys : \A d \in keys : ConditionCount(conds, d) <= ConditionCount(conds, c)}
    IN  CHOOSE c \in top : \A d \in top : FirstSeen(conds, c) <= FirstSeen(conds, d)

\* lines 95-108: the recommendation, as the sentences it is made of
Recommendation(cond, avg_temp) ==
    << CASE cond = "sunny"  -> "great_weather"
         [] cond = "cloudy" -> "overcast"
         [] cond = "rainy"  -> "rain_expected"
         [] OTHER           -> "mixed_conditions" >>
    \o (IF avg_temp < 100 THEN <<"cold">>
        ELSE IF avg_temp > 300 THEN <<"hot">> ELSE <<>>)

\* A decoded JSON result of get_weather: the keys it has and their values
\* (None for null, Some(v) otherwise; a key not in `keys` is absent).
NoWeather ==
    [keys |-> {}, error |-> None, city |-> None, country |-> None,
     temperature_c |-> None, temperature_max_c |-> None, temperature_min_c |-> None,
     conditions |-> None, recommendation |-> None, forecast_days |-> None]

\* The degraded shape of lines 32-37, 63-68, 126-131 and 134-139.
WeatherError(msg, advice) ==
    [NoWeather EXCEPT
        !.keys = {"error", "temperature_c", "conditions", "recommendation"},
        !.error = Some(msg),
        !.temperature_c = None,
        !.conditions = Some("unknown"),
        !.recommendation = Some(<<advice>>)]

\* lines 70-119: the result computed from a usable forecast
WeatherResult(found, daily) ==
    LET avg_max  == SumOf(daily.temps.max) \div Len(daily.temps.max)
        avg_min  == SumOf(daily.temps.min) \div Len(daily.temps.min)
        avg_temp == (avg_max + avg_min) \div 2
        conds    == [i \in DOMAIN daily.codes |-> InterpretCode(daily.codes[i])]
        dominant == DominantCondition(conds)
    IN  [NoWeather EXCEPT
            !.keys = {"city", "country", "temperature_c", "temperature_max_c",
                      "temperature_min_c", "conditions", "recommendation",
                      "forecast_days"},
            !.city = Some(IF found = "found_named" THEN "Paris" ELSE city),
            !.country = Some(IF found = "found_named" THEN "France" ELSE ""),
            !.temperature_c = Some(avg_temp),
            !.temperature_max_c = Some(avg_max),
            !.temperature_min_c = Some(avg_min),
            !.conditions = Some(dominant),
            !.recommendation = Some(Recommendation(dominant, avg_temp)),
            !.forecast_days = Some(Len(daily.temps.max))]

\* Fault: only request errors are handled.
WeatherCaughtRequestOnly(e) == e = "RequestException"

\* The except clauses of lines 124 and 132 catch every exception of the body.
WeatherCaught(e) == TRUE

\* An exception of class e raised in the body (lines 23-122).
WeatherRaise(e) ==
    /\ wraised' = e
    /\ wpc' = IF WeatherCaught(e) THEN "except" ELSE "escaped"

\* get_weather(city) is called.
WeatherStart ==
    /\ harness = "weather"
    /\ wpc = "idle"
    /\ city' \in {"Paris", "Atlantis", "int:42"}
    /\ wpc' = "geocode"
    /\ UNCHANGED <<geocode_data, weather_data, weather_out, wraised>>
    /\ UNCHANGED <<harness, requestVars, memVars, ragVars, fxVars, searchVars>>

\* lines 25-28: the geocoding request
Geocode ==
    /\ wpc = "geocode"
    /\ \/ \E f \in RequestFailures : \E h \in HandlersOf(f) :
             /\ WeatherRaise(h)
             /\ geocode_data' = f
       \/ \E b \in GeocodeBodies :
             /\ geocode_data' = b
             /\ wpc' = "check_city"
             /\ wraised' = wraised
    /\ UNCHANGED <<city, weather_data, weather_out>>
    /\ UNCHANGED <<harness, requestVars, memVars, ragVars, fxVars, searchVars>>

\* lines 30-43: city not found, or the coordinates of the first result
CheckCity ==
    /\ wpc = "check_city"
    /\ CASE geocode_data \in {"no_results_key", "empty_results"} ->
                /\ weather_out' = WeatherError("city_not_found", "unable_to_get")
                /\ wpc' = "returned"
                /\ wraised' = wraised
         [] geocode_data \in {"missing_latitude", "not_a_mapping"} ->
                /\ WeatherRaise("Exception")
                /\ weather_out' = weather_out
         [] OTHER ->
                /\ wpc' = "forecast"
                /\ UNCHANGED <<weather_out, wraised>>
    /\ UNCHANGED <<city, geocode_data, weather_data>>
    /\ UNCHANGED <<harness, requestVars, memVars, ragVars, fxVars, searchVars>>

\* lines 46-54: the forecast request
Forecast ==
    /\ wpc = "forecast"
    /\ \/ \E f \in RequestFailures : \E h \in HandlersOf(f) :
             /\ WeatherRaise(h)
             /\ weather_data' = [NoForecast EXCEPT !.kind = f]
       \/ \E b \in ForecastBodies :
             /\ weather_data' = b
             /\ wpc' = "process"
             /\ wraised' = wraised
    /\ UNCHANGED <<city, geocode_data, weather_out>>
    /\ UNCHANGED <<harness, requestVars, memVars, ragVars, fxVars, searchVars>>

\* lines 57-122: no temperature data, or the computed result; max() of an
\* empty condition_counts and .get on a body that is no mapping raise
ProcessWeather ==
    /\ wpc = "process"
    /\ CASE weather_data.kind = "not_a_mapping" ->
                /\ WeatherRaise("Exception")
                /\ weather_out' = weather_out
         [] weather_data.kind = "daily"
              /\ (weather_data.temps.max = <<>> \/ weather_data.temps.min = <<>>) ->
                /\ weather_out' = WeatherError("no_temperature_data", "unable_to_get")
                /\ wpc' = "returned"
                /\ wraised' = wraised
         [] weather_data.kind = "daily" /\ weather_data.temps.max # <<>>
              /\ weather_data.temps.min # <<>> /\ weather_data.codes = <<>> ->
                /\ WeatherRaise("Exception")
                /\ weather_out' = weather_out
         [] OTHER ->
                /\ weather_out' = WeatherResult(geocode_data, weather_data)
                /\ wpc' = "returned"
                /\ wraised' = wraised
    /\ UNCHANGED <<city, geocode_data, weather_data>>
    /\ UNCHANGED <<harness, requestVars, memVars, ragVars, fxVars, searchVars>>

\* lines 124-139: the two handlers
WeatherExcept ==
    /\ wpc = "except"
    /\ weather_out' = IF wraised = "RequestException"
                      THEN WeatherError("request_failed", "unable_to_fetch")
                      ELSE WeatherError("tool_error", "an_error_occurred")
    /\ wpc' = "returned"
    /\ UNCHANGED <<city, geocode_data, weather_data, wraised>>
    /\ UNCHANGED <<harness, requestVars, memVars, ragVars, fxVars, searchVars>>

\* get_weather has not been called.
WeatherIdle ==
    /\ wpc = "idle"
    /\ city = ""
    /\ geocode_data = "none"
    /\ weather_data = NoForecast
    /\ weather_out = NoWeather
    /\ wraised = "none"

---------------------------------------------------------------------------
(* tools/fx.py: FxTools.convert_fx *)

\* The currency arguments the model may pass: codes in either case, padded,
\* unknown to the API, or no string at all (None).
CurrencyArgs == {"usd", "EUR", " eur ", "xxx", Null}

\* code.upper().strip()
UpperStrip(c) ==
    CASE c = "usd"   -> "USD"
      [] c = " eur " -> "EUR"
      [] c = "xxx"   -> "XXX"
      [] OTHER       -> c

Amounts == {0, 100}

\* Bodies of the rates API: not a mapping, without "rates", with rates that
\* lack the target, with a rate that is no number, or with the converted
\* amount (in hundredths), dated or not.
NoRates == [kind |-> "none", converted |-> 0, dated |-> FALSE]

RateBodies ==
    { [kind |-> kd, converted |-> 0, dated |-> FALSE] :
        kd \in {"not_a_mapping", "no_rates_key", "target_absent", "rate_not_a_number"} }
    \cup { [kind |-> "rates", converted |-> c, dated |-> d] :
             c \in {0, 9200}, d \in BOOLEAN }

\* A decoded JSON result of convert_fx.
NoFx ==
    [keys |-> {}, error |-> None, base |-> None, target |-> None, amount |-> None,
     converted_amount |-> None, rate |-> None, date |-> None]

\* A JSON value for an argument: null for None.
JsonOf(v) == IF v = Null THEN None ELSE Some(v)

\* The degraded shape of lines 48-55, 74-81 and 84-91.
FxError(msg) ==
    [NoFx EXCEPT
        !.keys = {"error", "base", "target", "amount", "converted_amount", "rate"},
        !.error = Some(msg),
        !.base = JsonOf(base),
        !.target = JsonOf(target),
        !.amount = Some(amount),
        !.converted_amount = None,
        !.rate = None]

\* lines 58-67: rate in millionths, converted amount in hundredths
FxResult(body) ==
    [NoFx EXCEPT
        !.keys = {"base", "target", "amount", "converted_amount", "rate", "date"},
        !.base = JsonOf(base),
        !.target = JsonOf(target),
        !.amount = Some(amount),
        !.converted_amount = Some(body.converted),
        !.rate = Some(IF amount > 0 THEN (body.converted * 10000) \div amount ELSE 0),
        !.date = Some(IF body.dated THEN "2024-05-01" ELSE "unknown")]

\* The except clauses of lines 72 and 82 catch every exception of the body.
FxCaught(e) == TRUE

\* An exception of class e raised in the body (lines 25-70).
FxRaise(e) ==
    /\ fraised' = e
    /\ fpc' = IF FxCaught(e) THEN "except" ELSE "escaped"

\* convert_fx(amount, base, target) is called.
FxStart ==
    /\ harness = "fx"
    /\ fpc = "idle"
    /\ amount' \in Amounts
    /\ base' \in CurrencyArgs
    /\ target' \in CurrencyArgs
    /\ fpc' = "normalize"
    /\ UNCHANGED <<fx_data, fx_out, fraised>>
    /\ UNCHANGED <<harness, requestVars, memVars, ragVars, weatherVars, searchVars>>

\* lines 27-28: upper().strip() of both codes; None has no upper()
FxNormalize ==
    /\ fpc = "normalize"
    /\ IF base = Null
       THEN FxRaise("Exception") /\ UNCHANGED <<base, target>>
       ELSE /\ base' = UpperStrip(base)
            /\ IF target = Null
               THEN FxRaise("Exception") /\ target' = target
               ELSE /\ target' = UpperStrip(target)
                    /\ fpc' = "request"
                    /\ fraised' = fraised
    /\ UNCHANGED <<amount, fx_data, fx_out>>
    /\ UNCHANGED <<harness, requestVars, memVars, ragVars, weatherVars, searchVars>>

\* lines 31-40: the rates request
FxRequest ==
    /\ fpc = "request"
    /\ \/ \E f \in RequestFailures : \E h \in HandlersOf(f) :
             /\ FxRaise(h)
             /\ fx_data' = [NoRates EXCEPT !.kind = f]
       \/ \E b \in RateBodies :
             /\ fx_data' = b
             /\ fpc' = "convert"
             /\ fraised' = fraised
    /\ UNCHANGED <<amount, base, target, fx_out>>
    /\ UNCHANGED <<harness, requestVars, memVars, ragVars, weatherVars, searchVars>>

\* lines 43-70: currency not supported, or the conversion
FxConvert ==
    /\ fpc = "convert"
    /\ CASE fx_data.kind \in {"no_rates_key", "target_absent"} ->
                /\ fx_out' = FxError("currency_not_supported")
                /\ fpc' = "returned"
                /\ fraised' = fraised
         [] fx_data.kind \in {"not_a_mapping", "rate_not_a_number"} ->
                /\ FxRaise("Exception")
                /\ fx_out' = fx_out
         [] OTHER ->
                /\ fx_out' = FxResult(fx_data)
                /\ fpc' = "returned"
                /\ fraised' = fraised
    /\ UNCHANGED <<amount, base, target, fx_data>>
    /\ UNCHANGED <<harness, requestVars, memVars, ragVars, weatherVars, searchVars>>

\* lines 72-91: the two handlers
FxExcept ==
    /\ fpc = "except"
    /\ fx_out' = IF fraised = "RequestException"
                 THEN FxError("conversion_failed") ELSE FxError("tool_error")
    /\ fpc' = "returned"
    /\ UNCHANGED <<amount, base, target, fx_data, fraised>>
    /\ UNCHANGED <<harness, requestVars, memVars, ragVars, weatherVars, searchVars>>

\* convert_fx has not been called.
FxIdle ==
    /\ fpc = "idle"
    /\ amount = 0
    /\ base = Null
    /\ target = Null
    /\ fx_data = NoRates
    /\ fx_out = NoFx
    /\ fraised = "none"

---------------------------------------------------------------------------
(* tools/search.py: SearchTools.web_search *)

\* Titles, snippets and keywords are sequences of letters.
LowerLetter(c) ==
    CASE c = "A" -> "a"
      [] c = "B" -> "b"
      [] c = "U" -> "u"
      [] OTHER   -> c

\* text.lower()
LowerText(t) == [i \in DOMAIN t |-> LowerLetter(t[i])]

\* kw in text
Contains(kw, t) ==
    \E i \in 0..(Len(t) - Len(kw)) : SubSeq(t, i + 1, i + Len(kw)) = kw

\* A JSON null where a text is expected.
NullText == <<Null>>

\* The objects the agent may put in its JSON array: `has` is the set of
\* keys the object carries.
ProviderEntries ==
    { [has |-> {"title", "url", "snippet"}, title |-> <<"A">>, url |-> "u1", snippet |-> <<"b">>],
      [has |-> {"title", "url", "snippet"}, title |-> <<"b">>, url |-> "u2", snippet |-> <<"c">>],
      [has |-> {"url"}, title |-> <<>>, url |-> "u3", snippet |-> <<>>],
      [has |-> {"title", "url", "snippet"}, title |-> NullText, url |-> "u4", snippet |-> <<"c">>] }

EntryLists == UNION { [1..n -> ProviderEntries] : n \in 0..MaxEntries }

\* The assistant text, as its segments: "fence_open" a first line starting
\* with three backquotes, "fence_close" a last line of three backquotes,
\* "x" prose without brackets, "array" the JSON array of the entries,
\* "scalars" a JSON array of strings, "broken" brackets around text that is
\* not JSON.
RawTexts ==
    { <<"array">>, <<"fence_open", "array", "fence_close">>, <<"fence_open", "array">>,
      <<"x", "array">>, <<"array", "x">>, <<"x", "array", "x">>,
      <<"x", "fence_open", "array", "fence_close">>, <<"array", "x", "array">>,
      <<"x">>, <<"broken">>, <<"scalars">>, <<"fence_open", "x", "fence_close">> }

Bracketed == {"array", "scalars", "broken"}

\* text.find("[") and text.rfind("]") over the positions holding brackets
FirstOf(at) == CHOOSE i \in at : \A j \in at : i <= j
LastAmong(at) == CHOOSE i \in at : \A j \in at : j <= i

\* lines 104-110: drop the fence lines of a text that starts with one
StripFences(t) ==
    IF t # <<>> /\ t[1] = "fence_open"
    THEN LET body == Tail(t)
         IN  IF body # <<>> /\ body[Len(body)] = "fence_close"
             THEN SubSeq(body, 1, Len(body) - 1) ELSE body
    ELSE t

\* lines 112-118: a text that does not start with "[" is cut from its first
\* "[" to its last "]"; without brackets that is a ValueError
CutToArray(t) ==
    LET at == {i \in DOMAIN t : t[i] \in Bracketed}
    IN  IF t # <<>> /\ t[1] \in Bracketed THEN t
        ELSE IF at = {} THEN <<"no_array">>
        ELSE SubSeq(t, FirstOf(at), LastAmong(at))

\* json.loads(raw_json) yields a list: the text is one JSON array
LoadsList(t) == Len(t) = 1 /\ t[1] \in {"array", "scalars"}

\* lines 124-128: one normalized entry
Normalized(r) ==
    [title   |-> IF "title" \in r.has THEN r.title ELSE <<"U">>,
     url     |-> IF "url" \in r.has THEN r.url ELSE "",
     snippet |-> IF "snippet" \in r.has THEN r.snippet ELSE <<>>]

\* Fault: the keyword is compared without lowering the text.
MatchesCaseSensitive(r, kws) ==
    \E i \in DOMAIN kws : Contains(LowerText(kws[i]), r.title \o r.snippet)

\* line 134: any(kw.lower() in (r["title"] + r["snippet"]).lower() ...)
Matches(r, kws) ==
    \E i \in DOMAIN kws : Contains(LowerText(kws[i]), LowerText(r.title \o r.snippet))

\* lst[:n] for n >= 0
FirstN(lst, n) == SubSeq(lst, 1, Min(n, Len(lst)))

\* The filter arguments: None, an empty list, or a list of keywords.
FilterArgs ==
    { None, Some(<<>>), Some(<< <<"a">> >>), Some(<< <<"a", "B">> >>),
      Some(<< <<"z">> >>), Some(<< <<"z">>, <<"C">> >>) }

Placeholder(title, url, snippet) ==
    << [title |-> <<title>>, url |-> url, snippet |-> <<snippet>>] >>

\* except Exception (line 140) catches every exception of the body.
SearchCaught(e) == TRUE

\* An exception of class e raised in the body (lines 38-138).
SearchRaise(e) ==
    /\ sraised' = e
    /\ spc' = IF SearchCaught(e) THEN "except" ELSE "escaped"

\* web_search(query, max_results, filter_keywords) is called on a
\* SearchTools that is configured or not.
SearchStart ==
    /\ harness = "search"
    /\ spc = "idle"
    /\ configured' \in BOOLEAN
    /\ max_results' \in 0..MaxResults
    /\ filter_keywords' \in FilterArgs
    /\ spc' = "check_config"
    /\ UNCHANGED <<raw_json, provider_entries, search_out, sraised>>
    /\ UNCHANGED <<harness, requestVars, memVars, ragVars, weatherVars, fxVars>>

\* lines 31-36
CheckConfig ==
    /\ spc = "check_config"
    /\ IF configured
       THEN spc' = "run_agent" /\ search_out' = search_out
       ELSE /\ search_out' = Placeholder("Missing configuration", "https://bing.com",
                                         "missing_settings")
            /\ spc' = "returned"
    /\ UNCHANGED <<configured, max_results, filter_keywords, raw_json,
                   provider_entries, sraised>>
    /\ UNCHANGED <<harness, requestVars, memVars, ragVars, weatherVars, fxVars>>

\* lines 39-91: the agent run; it raises, gives no text, or gives a text
RunAgent ==
    /\ spc = "run_agent"
    /\ \/ /\ SearchRaise("RemoteError")
          /\ UNCHANGED <<raw_json, provider_entries>>
       \/ /\ raw_json' = None
          /\ spc' = "parse"
          /\ UNCHANGED <<provider_entries, sraised>>
       \/ \E t \in RawTexts, es \in EntryLists :
             /\ ("array" \notin {t[i] : i \in DOMAIN t}) => es = <<>>
             /\ raw_json' = Some(t)
             /\ provider_entries' = es
             /\ spc' = "parse"
             /\ sraised' = sraised
    /\ UNCHANGED <<configured, max_results, filter_keywords, search_out>>
    /\ UNCHANGED <<harness, requestVars, memVars, ragVars, weatherVars, fxVars>>

\* lines 93-138: no text; else strip the fences, cut to the array, parse it,
\* normalize the entries, filter them and truncate
ParseAndFilter ==
    /\ spc = "parse"
    /\ IF raw_json = None
       THEN /\ search_out' = Placeholder("No results", "", "no_json_returned")
            /\ spc' = "returned"
            /\ sraised' = sraised
       ELSE LET text       == CutToArray(StripFences(raw_json[1]))
                normalized == [i \in DOMAIN provider_entries |->
                                 Normalized(provider_entries[i])]
                kws        == IF filter_keywords = None THEN <<>> ELSE filter_keywords[1]
            IN  IF text = <<"no_array">> THEN
                    SearchRaise("ValueError") /\ search_out' = search_out
                ELSE IF ~LoadsList(text) THEN
                    SearchRaise("ValueError") /\ search_out' = search_out
                ELSE IF text = <<"scalars">> THEN
                    SearchRaise("AttributeError") /\ search_out' = search_out
                ELSE IF kws # <<>> THEN
                    IF \E i \in DOMAIN normalized :
                          NullText \in {normalized[i].title, normalized[i].snippet}
                    THEN SearchRaise("TypeError") /\ search_out' = search_out
                    ELSE LET filtered == SelectSeq(normalized, LAMBDA r : Matches(r, kws))
                         IN  /\ search_out' =
                                   IF FirstN(filtered, max_results) # <<>>
                                   THEN FirstN(filtered, max_results)
                                   ELSE FirstN(normalized, max_results)
                             /\ spc' = "returned"
                             /\ sraised' = sraised
                ELSE /\ search_out' = FirstN(normalized, max_results)
                     /\ spc' = "returned"
                     /\ sraised' = sraised
    /\ UNCHANGED <<configured, max_results, filter_keywords, raw_json, provider_entries>>
    /\ UNCHANGED <<harness, requestVars, memVars, ragVars, weatherVars, fxVars>>

\* lines 140-148
SearchExcept ==
    /\ spc = "except"
    /\ search_out' = Placeholder("Search error", "", sraised)
    /\ spc' = "returned"
    /\ UNCHANGED <<configured, max_results, filter_keywords, raw_json,
                   provider_entries, sraised>>
    /\ UNCHANGED <<harness, requestVars, memVars, ragVars, weatherVars, fxVars>>

\* web_search has not been called.
SearchIdle ==
    /\ spc = "idle"
    /\ configured = FALSE
    /\ max_results = 0
    /\ filter_keywords = None
    /\ raw_json = None
    /\ provider_entries = <<>>
    /\ search_out = <<>>
    /\ sraised = "none"

---------------------------------------------------------------------------
(* The specification *)

\* run_request has not been called; the caller holds a fresh
\* ShortTermMemory(max_items=10, max_tokens=4000).
RequestIdle ==
    /\ pc = "idle"
    /\ reqCount = 0
    /\ user_input = <<>>
    /\ shared = FALSE
    /\ ltmPresent \in (IF harness = "session" THEN BOOLEAN ELSE {FALSE})
    /\ callerMem = NewShortTermMemory(1, MemoryMaxItems, MemoryMaxTokens)
    /\ memory = NoMemory
    /\ state = NoState
    /\ chat_history = <<>>
    /\ submitted = <<>>
    /\ response = <<>>
    /\ response_data = JsonLoads(<<LBrace, RBrace>>)
    /\ agent_response = <<>>
    /\ trip_plan = NoPlan
    /\ exc = "none"
    /\ envelope = NoEnvelope
    /\ returns = 0
    /\ ltmStore = <<>>
    /\ ltmFailed = {}
    /\ trace = <<>>
    /\ atStart = [callerMem |-> callerMem, ltmStore |-> ltmStore]
    /\ nextId = 2
    /\ sm = NewAgentState(0)
    /\ smCalls = 0
    /\ smRaised = 0

\* No free-standing memory is in use.
MemoryIdle == stm = NoMemory /\ stmLog = <<>>

Init ==
    /\ harness \in {"session", "pipeline", "machine", "memory"}
    /\ RequestIdle
    /\ IF harness = "memory"
       THEN /\ stm \in {NewShortTermMemory(1, b[1], b[2]) : b \in StmBudgets}
            /\ stmLog = <<>>
       ELSE MemoryIdle
    /\ RetrieveIdle
    /\ WeatherIdle
    /\ FxIdle
    /\ SearchIdle

Next ==
    \/ StartRequest
    \/ ValidateConfig
    \/ CreateKernel
    \/ InitState
    \/ AddUserMessage
    \/ StoreUserLongTerm
    \/ Advance1
    \/ BuildHistory
    \/ Advance2
    \/ CallCompletion
    \/ CompletionReturns
    \/ CompletionFails
    \/ Advance3
    \/ ReadResponse
    \/ SaveAssistant
    \/ StoreAssistantLongTerm
    \/ ExtractJson
    \/ ValidatePlan
    \/ Advance4
    \/ ReturnValidated
    \/ InnerExcept
    \/ OuterExcept
    \/ SmAdvance
    \/ SmFail
    \/ StmAdd

Spec == Init /\ [][Next]_vars

\* retrieve called once
RetrievalInit ==
    /\ harness = "retrieval"
    /\ RequestIdle
    /\ MemoryIdle
    /\ RetrieveIdle
    /\ WeatherIdle
    /\ FxIdle
    /\ SearchIdle

RetrievalNext ==
    \/ RetrieveStart
    \/ GetCosmosClient
    \/ EmbedQuery
    \/ CheckVector
    \/ ConvertVector
    \/ RunQuery
    \/ ReturnResults
    \/ RetrieveExcept

RetrievalSpec == RetrievalInit /\ [][RetrievalNext]_vars

\* get_weather or convert_fx called once
ToolsInit ==
    /\ harness \in {"weather", "fx"}
    /\ RequestIdle
    /\ MemoryIdle
    /\ RetrieveIdle
    /\ WeatherIdle
    /\ FxIdle
    /\ SearchIdle

ToolsNext ==
    \/ WeatherStart
    \/ Geocode
    \/ CheckCity
    \/ Forecast
    \/ ProcessWeather
    \/ WeatherExcept
    \/ FxStart
    \/ FxNormalize
    \/ FxRequest
    \/ FxConvert
    \/ FxExcept

ToolsSpec == ToolsInit /\ [][ToolsNext]_vars

\* web_search called once
SearchInit ==
    /\ harness = "search"
    /\ RequestIdle
    /\ MemoryIdle
    /\ RetrieveIdle
    /\ WeatherIdle
    /\ FxIdle
    /\ SearchIdle

SearchNext ==
    \/ SearchStart
    \/ CheckConfig
    \/ RunAgent
    \/ ParseAndFilter
    \/ SearchExcept

SearchSpec == SearchInit /\ [][SearchNext]_vars

---------------------------------------------------------------------------
(* Properties *)

HasEvent(e) == \E i \in DOMAIN trace : trace[i].ev = e

HasRaised(e) == \E i \in DOMAIN trace : trace[i] = Event("raised", e)

\* The position in the trace of the first event e (0 when there is none).
FirstEvent(e) ==
    IF HasEvent(e) THEN CHOOSE i \in DOMAIN trace :
                           trace[i].ev = e /\ \A j \in 1..(i - 1) : trace[j].ev # e
    ELSE 0

Returned == pc = "returned"

\* The call went through the steps before the parse-and-validate block.
ReachedPipeline == HasEvent("ltm_assistant")

Quality == envelope.metadata.data_quality

\* The braces of a text, by run index.
OpenAt(t) == {i \in 1..Len(t) : t[i].k = "{"}

CloseAt(t) == {i \in 1..Len(t) : t[i].k = "}"}

Least(S) == CHOOSE x \in S : \A y \in S : x <= y

Greatest(S) == CHOOSE x \in S : \A y \in S : x >= y

\* The text has a "{" and, after its first "{", a "}".
HasSpan(t) ==
    OpenAt(t) # {} /\ CloseAt(t) # {} /\ Least(OpenAt(t)) < Greatest(CloseAt(t))

\* The runs from the first "{" to the last "}".
SpanOf(t) == SubSeq(t, Least(OpenAt(t)), Greatest(CloseAt(t)))

\* The first-"{"-to-last-"}" substring parses as JSON.
SpanParses(t) == HasSpan(t) /\ IsJsonObject(SpanOf(t))

\* A JSON object text satisfies the TripPlan schema: the required fields
\* are there, and the citations member that counts is not ill-typed.
ObjectIsTripPlan(s) ==
    /\ \E i \in 1..Len(s) : s[i].k = "D"
    /\ ~\E i \in 1..Len(s) :
          s[i].k = "B" /\ \A j \in (i + 1)..Len(s) : s[j].k \notin {"C", "E", "B"}

\* Some substring of the text is a well-formed TripPlan JSON object.
ContainsTripPlan(t) ==
    \E i \in 1..Len(t), j \in 1..Len(t) :
        i < j /\ IsJsonObject(SubSeq(t, i, j)) /\ ObjectIsTripPlan(SubSeq(t, i, j))

\* C1: when the first-"{"-to-last-"}" substring of the assistant text parses
\* as JSON but fails TripPlan validation, the returned envelope carries the
\* raw assistant text and the validation error and is tagged
\* data_quality = validation_failed.
C1_SchemaFailureTaggedValidationFailed ==
    (Returned /\ ReachedPipeline /\ SpanParses(agent_response)
       /\ ~ObjectIsTripPlan(SpanOf(agent_response)))
    => /\ Quality = "validation_failed"
       /\ envelope.raw_response = agent_response
       /\ "validation_error" \in envelope.metadata.keys

\* C2: when the assistant text has no "{", no "}" after its first "{", or
\* a first-"{"-to-last-"}" substring that is not JSON, the envelope is tagged
\* unvalidated, its payload is the whole assistant text, and it carries the
\* parse error.
C2_UnparseableIsUnvalidatedVerbatim ==
    (Returned /\ ReachedPipeline /\ ~SpanParses(agent_response))
    => /\ Quality = "unvalidated"
       /\ envelope.keys = {"raw_response", "metadata"}
       /\ envelope.raw_response = response[1]
       /\ "parse_error" \in envelope.metadata.keys
       /\ envelope.metadata.parse_error =
            (IF OpenAt(agent_response) # {} /\ CloseAt(agent_response) # {}
             THEN "JSONDecodeError" ELSE "ValueError")

\* C2 witness: a reply whose only "}" stands before its first "{" came back
\* unvalidated and verbatim.
C2_Witness ==
    /\ Returned /\ ReachedPipeline
    /\ OpenAt(agent_response) # {} /\ CloseAt(agent_response) # {}
    /\ ~HasSpan(agent_response)
    /\ Quality = "unvalidated"
    /\ envelope.raw_response = agent_response

\* C3: on the validated tier, empty or absent citations with a non-empty
\* results list are replaced by the non-empty urls of the results in their
\* order; non-empty citations are returned as they were.
C3_CitationsRepaired ==
    (Returned /\ Quality = "validated_with_pydantic")
    => LET given   == response_data.citations
           results == response_data.results
           urls    == SelectSeq(results[1], LAMBDA u : u \notin {"", Null})
       IN  /\ (given # None /\ given[1] # <<>>)
                 => envelope.trip_plan.citations = given
           /\ ((given = None \/ given[1] = <<>>) /\ results # None /\ results[1] # <<>>)
                 => envelope.trip_plan.citations = Some(urls)

\* C3 witness: a validated plan whose citations were empty and whose results
\* hold empty urls returned the two non-empty urls in order.
C3_Witness ==
    /\ Returned /\ Quality = "validated_with_pydantic"
    /\ ~Truthy(response_data.citations)
    /\ response_data.results = Some(ResultUrls)
    /\ envelope.trip_plan.citations = Some(<<"u1", "u2">>)

\* C4 as stated: after a successful completion call the envelope has the
\* metadata keys, data_quality is one of validated_with_schema, unvalidated,
\* validation_failed, and it is validated_with_schema exactly when the
\* assistant text contains a well-formed TripPlan JSON object.  (Stated of
\* the calls that went on to parse the reply, which is less than the claim
\* says: a violation here is a violation of the claim.)
C4_QualityIsASchemaTag ==
    (Returned /\ HasEvent("completion_returned") /\ ReachedPipeline)
    => /\ {"session_id", "tools_called", "data_quality"} \subseteq envelope.metadata.keys
       /\ Quality \in {"validated_with_schema", "unvalidated", "validation_failed"}
       /\ Quality = "validated_with_schema" <=> ContainsTripPlan(response[1])

\* C4 as amended: once the completion call has succeeded and the reply has
\* been appended to Short-Term Memory, the envelope has metadata with
\* session_id, tools_called and data_quality; data_quality is one of
\* validated_with_pydantic, unvalidated, validation_failed; and it is
\* validated_with_pydantic exactly when the text from the first "{" to the
\* last "}" of the assistant text is a JSON object that is a valid TripPlan.
C4_QualityIsOneOfThreeTags ==
    (Returned /\ ReachedPipeline)
    => /\ "metadata" \in envelope.keys
       /\ {"session_id", "tools_called", "data_quality"} \subseteq envelope.metadata.keys
       /\ envelope.metadata.session_id = state.session_id
       /\ envelope.metadata.tools_called = <<"automatic_via_llm">>
       /\ Quality \in {"validated_with_pydantic", "unvalidated", "validation_failed"}
       /\ Quality = "validated_with_pydantic"
            <=> (SpanParses(response[1]) /\ ObjectIsTripPlan(SpanOf(response[1])))

\* C4 witness: a TripPlan object with prose before and after it came back
\* validated.
C4_Witness ==
    /\ Returned /\ Quality = "validated_with_pydantic"
    /\ response[1][1].k = "x"
    /\ response[1][Len(response[1])].k = "x"
    /\ envelope.keys = {"trip_plan", "metadata"}

\* C5: no error escapes run_request: an exception in flight is always at a
\* handler, a call returns exactly one envelope of one of the three shapes
\* or the failed shape, and a failed completion call yields
\* {error, status: "failed"} with no trip plan and no raw response.
C5_AlwaysOneEnvelope ==
    /\ pc # "escaped"
    /\ exc # "none" => pc \in {"inner_except", "outer_except"}
    /\ returns = (IF Returned THEN 1 ELSE 0)
    /\ Returned =>
          /\ exc = "none"
          /\ envelope.keys \in {{"trip_plan", "metadata"}, {"raw_response", "metadata"},
                                {"error", "status"}}
          /\ \A e \in {"ConfigError", "KernelError", "MemoryError", "CompletionError"} :
                HasRaised(e) =>
                   /\ envelope.keys = {"error", "status"}
                   /\ envelope.error = e
                   /\ envelope.status = "failed"
                   /\ envelope.trip_plan = NoPlan
                   /\ envelope.raw_response = <<>>

\* C5 witness: the completion call failed and the failed envelope came back.
C5_Witness ==
    /\ Returned /\ HasRaised("CompletionError")
    /\ envelope.keys = {"error", "status"} /\ envelope.status = "failed"

\* C6: when configuration validation fails nothing has happened before it
\* and nothing happens after it but the failed envelope: Short-Term Memory
\* and the long-term store are as the call found them, no AgentState was
\* advanced, no completion call was issued, no plan is returned.
C6_ConfigFailureAbortsFirst ==
    HasRaised("ConfigError")
    => /\ trace[1] = Event("raised", "ConfigError")
       /\ \A i \in DOMAIN trace : trace[i].ev \in {"raised", "return"}
       /\ callerMem = atStart.callerMem
       /\ ltmStore = atStart.ltmStore
       /\ memory = (IF shared THEN atStart.callerMem ELSE NoMemory)
       /\ state = NoState
       /\ chat_history = <<>> /\ submitted = <<>> /\ response = <<>>
       /\ Returned => /\ envelope.keys = {"error", "status"}
                      /\ envelope.error = "ConfigError"
                      /\ envelope.status = "failed"
                      /\ envelope.trip_plan = NoPlan
                      /\ envelope.raw_response = <<>>

\* C6 witness: a call on a shared memory that already holds a conversation
\* failed configuration validation and returned.
C6_Witness ==
    /\ Returned /\ HasRaised("ConfigError")
    /\ shared /\ callerMem.items # <<>>
    /\ envelope.status = "failed"

\* A long-term write step leaves everything but the long-term store alone
\* and goes on at the step that follows it.
LongTermStepIsLocal ==
    pc \in {"ltm_user", "ltm_assistant"}
    => /\ pc' = (IF pc = "ltm_user" THEN "advance1" ELSE "extract_json")
       /\ \E outcome \in {"ok", "failed", "skipped"} :
             trace' = Append(trace, Event(pc, outcome))
       /\ UNCHANGED <<state, memory, callerMem, chat_history, submitted,
                      response, response_data, agent_response, trip_plan,
                      exc, envelope, returns, nextId, user_input>>

\* No long-term failure is raised or reported.
LongTermFailureUnreported ==
    /\ ~HasRaised("LongTermWriteError")
    /\ ltmFailed # {} =>
          /\ envelope.error # "LongTermWriteError"
          /\ envelope.metadata.parse_error # "LongTermWriteError"
          /\ envelope.metadata.validation_error # "LongTermWriteError"

\* C7: a long-term write, failed or not, changes nothing but the long-term
\* store: the call goes on at the same step with the same AgentState,
\* Short-Term Memory, messages, response and envelope, and the failure is
\* never raised nor reported in the envelope.
C7_LongTermFailureChangesNothing ==
    [][LongTermStepIsLocal]_vars /\ []LongTermFailureUnreported

\* C7 witness: both long-term writes failed and the call returned a
\* validated plan in phase Validated.
C7_Witness ==
    /\ Returned /\ ltmFailed = {"user_input", "assistant_response"}
    /\ Quality = "validated_with_pydantic"
    /\ state.phase = "Validated"

\* Event e occurs in the trace before the completion call is issued.
BeforeIssue(e, args) ==
    \E i \in 1..(FirstEvent("completion_issued") - 1) :
        trace[i].ev = e /\ trace[i].arg \in args

\* C8 as stated: whenever the completion call is issued, the new user message
\* has been appended to Short-Term Memory and its long-term mirror has been
\* attempted before the call.
C8_UserTurnAndMirrorBeforeCall ==
    HasEvent("completion_issued")
    => /\ BeforeIssue("stm_user", {""})
       /\ BeforeIssue("ltm_user", {"ok", "failed"})

\* C8 as amended: whenever the completion call is issued, the new user
\* message has been appended to Short-Term Memory before the call (it is the
\* memory's newest item while the call is awaited) and, when a long-term
\* memory client was passed, its mirror has been attempted before the call.
C8_UserTurnBeforeCall ==
    /\ HasEvent("completion_issued")
       => /\ BeforeIssue("stm_user", {""})
          /\ ltmPresent => BeforeIssue("ltm_user", {"ok", "failed"})
          /\ ~ltmPresent => BeforeIssue("ltm_user", {"skipped"})
    /\ pc = "await_completion"
       => /\ memory.items # <<>>
          /\ memory.items[Len(memory.items)] = [role |-> "user", content |-> user_input]
          /\ shared => callerMem = memory
          /\ ltmPresent /\ "user_input" \notin ltmFailed
               => /\ ltmStore # <<>>
                  /\ ltmStore[Len(ltmStore)].content = user_input
                  /\ ltmStore[Len(ltmStore)].tags = {"user_input"}

\* C8 witness: the call is awaited, the user turn is in memory and its
\* long-term mirror was attempted and failed.
C8_Witness ==
    /\ pc = "await_completion"
    /\ ltmPresent /\ "user_input" \in ltmFailed
    /\ memory.items[Len(memory.items)].content = user_input

\* The phases at or past p.
From(p) == {Phases[i] : i \in PhaseIndex(p)..Len(Phases)}

\* The assistant reply has been persisted, to either memory.
ReplyPersisted ==
    HasEvent("stm_assistant")
      \/ \E i \in DOMAIN trace : trace[i] = Event("ltm_assistant", "ok")

\* What C9 says of Completed, Validated and the persisting of the reply.
LaterPhasesFollowTheirSteps ==
    /\ state.phase \in From("Completed") => HasEvent("completion_returned")
    /\ state.phase = "Validated" => HasEvent("schema_validated")
    /\ ReplyPersisted => (HasEvent("response_read") /\ state.phase \in From("Completed"))
    /\ pc \in {"save_assistant", "ltm_assistant"} => state.phase = "Completed"

\* C9 as stated: Dispatched is entered only once the completion call has
\* been issued, Completed only after it has returned, Validated only after
\* schema validation has succeeded, and the reply is persisted only after the
\* response has been received, in phase Completed.
C9_PhaseEnteredAfterItsStep ==
    /\ state.phase \in From("Dispatched") => HasEvent("completion_issued")
    /\ LaterPhasesFollowTheirSteps

\* C9 as amended: Received is entered only after the user message has been
\* appended, Dispatched only once the messages are assembled, and the
\* completion call is issued in phase Dispatched (the phase is entered just
\* before the call, not after it); Completed, Validated and the persisting
\* of the reply are as stated.
C9_PhaseEnteredAtItsStep ==
    /\ state.phase \in From("Received") => HasEvent("stm_user")
    /\ state.phase \in From("Dispatched") => HasEvent("history_built")
    /\ HasEvent("completion_issued") => state.phase \in From("Dispatched")
    /\ pc = "await_completion" => state.phase = "Dispatched"
    /\ LaterPhasesFollowTheirSteps

\* C9 witness: the reply has been persisted in phase Completed, the call
\* having been issued in phase Dispatched and returned.
C9_Witness ==
    /\ pc = "ltm_assistant"
    /\ state.phase = "Completed"
    /\ HasEvent("stm_assistant") /\ HasEvent("completion_returned")

\* The phases the advances of this call entered, in order.
Advances == SelectSeq(trace, LAMBDA e : e.ev = "advance")

\* What C10 says of run_request: its advances walk the phase sequence in
\* order, none raises InvalidTransition, and the validated path makes the
\* advances that end in Validated.
RunRequestAdvancesInOrder ==
    /\ ~HasRaised("InvalidTransition")
    /\ \A i \in DOMAIN Advances : Advances[i].arg = Phases[i + 1]
    /\ state.phase = Phases[Len(Advances) + 1]
    /\ (Returned /\ Quality = "validated_with_pydantic")
         => (state.phase = "Validated" /\ Len(Advances) = Len(Phases) - 1)

---------------------------------------------------------------------------
(* Short-Term Memory *)

\* s is a contiguous suffix of t.
IsSuffix(s, t) ==
    /\ Len(s) <= Len(t)
    /\ s = SubSeq(t, Len(t) - Len(s) + 1, Len(t))

WithinBudget(mem) ==
    /\ Len(mem.items) <= mem.max_items
    /\ EstimatedTokens(mem.items) <= mem.max_tokens

\* The items this call of run_request has added to its memory so far.
AddedByRequest ==
    (IF HasEvent("stm_user")
     THEN <<[role |-> "user", content |-> user_input]>> ELSE <<>>)
    \o (IF HasEvent("stm_assistant")
        THEN <<[role |-> "assistant", content |-> Kept(agent_response)]>> ELSE <<>>)

\* C11: after any sequence of add operations on a Short-Term Memory with
\* budget (max_items, max_tokens) the history is a contiguous suffix of the
\* appended sequence, oldest first, of at most max_items items and at most
\* max_tokens estimated tokens; and the memory a caller shares with
\* run_request, budget (10, 4000), is after every step a suffix of what it
\* held when the call began followed by what the call added, within budget.
C11_HistoryIsRecentSuffixWithinBudget ==
    /\ IsSuffix(GetConversationHistory(stm), stmLog)
    /\ WithinBudget(stm)
    /\ IsSuffix(GetConversationHistory(callerMem),
                atStart.callerMem.items \o (IF shared THEN AddedByRequest ELSE <<>>))
    /\ WithinBudget(callerMem)
    /\ callerMem.max_items = MemoryMaxItems /\ callerMem.max_tokens = MemoryMaxTokens
    /\ HasEvent("stm_user") =>
          /\ IsSuffix(GetConversationHistory(memory),
                      (IF shared THEN atStart.callerMem.items ELSE <<>>) \o AddedByRequest)
          /\ WithinBudget(memory)
          /\ memory.max_items = MemoryMaxItems /\ memory.max_tokens = MemoryMaxTokens

\* Items were evicted from a memory of run_request's budget, and some survive.
C11_Witness ==
    /\ harness = "memory"
    /\ stm.max_tokens = MemoryMaxTokens /\ stm.max_items = MemoryMaxItems
    /\ Len(stm.items) > 0
    /\ Len(stmLog) > Len(stm.items)
    /\ Len(stmLog) = MaxAppends


---------------------------------------------------------------------------
(* The submitted context and the session identifier *)

UserMessage == [role |-> "user", content |-> user_input]

\* The conversation the memory held before this call, as messages.
PriorMessages == HistoryMessages(IF shared THEN atStart.callerMem.items ELSE <<>>)

\* C18: the message list submitted to the completion service is the system
\* prompt, then the prior conversation items of Short-Term Memory oldest
\* first, then the new user message, exactly once and last.
C18_SubmittedIsPromptHistoryThenUserOnce ==
    HasEvent("completion_issued") =>
        submitted = <<SystemMessage>> \o PriorMessages \o <<UserMessage>>

\* The long-term records this call has written.
WrittenByRequest == SubSeq(ltmStore, Len(atStart.ltmStore) + 1, Len(ltmStore))

\* C19: the session identifier is generated once per conversation: every
\* envelope returned by a call that works on the caller's Short-Term Memory
\* carries the one identifier of that memory, which is the session_id the
\* call's long-term records are written under.
C19_OneSessionIdPerConversation ==
    (Returned /\ shared /\ "metadata" \in envelope.keys) =>
        /\ envelope.metadata.session_id = callerMem.session_id
        /\ \A i \in DOMAIN WrittenByRequest :
              WrittenByRequest[i].session_id = envelope.metadata.session_id

---------------------------------------------------------------------------
(* A failed completion call leaves the user turn behind *)

UserItem == [role |-> "user", content |-> user_input]

LastItem(items) == items[Len(items)]

\* What the memory held when this call took it over.
BaseItems == IF shared THEN atStart.callerMem.items ELSE <<>>

CompletionFailed == HasRaised("CompletionError")

\* The call failed at the completion service: the failed envelope is
\* returned, the memory keeps the user turn and gains no assistant turn, and
\* the long-term store keeps the user record it was given.
FailedCallKeepsUserTurn ==
    (Returned /\ CompletionFailed) =>
        /\ envelope.keys = {"error", "status"} /\ envelope.status = "failed"
        /\ memory.items = BaseItems \o <<UserItem>>
        /\ shared => callerMem = memory
        /\ WrittenByRequest =
              (IF HasEvent("ltm_user") /\ trace[FirstEvent("ltm_user")].arg = "ok"
               THEN <<[session_id |-> memory.session_id, content |-> user_input,
                       memory_type |-> "conversation",
                       importance_score |-> UserImportance, tags |-> {"user_input"}]>>
               ELSE <<>>)

\* A call on a memory whose last turn is an unanswered user turn submits
\* that turn, followed by the new user message and by no assistant reply.
UnansweredTurnIsSubmitted ==
    (HasEvent("completion_issued") /\ shared /\ atStart.callerMem.items # <<>>
        /\ LastItem(atStart.callerMem.items).role = "user") =>
        LET n == Len(atStart.callerMem.items)
        IN  /\ Len(submitted) > n + 1
            /\ submitted[n + 1] = [role |-> "user",
                                   content |-> LastItem(atStart.callerMem.items).content]
            /\ submitted[n + 2].role = "user"

\* One of the three response tiers was returned: the first 500 characters of
\* the reply are the memory's last item, after this call's user turn.
ReplyKeptInEveryTier ==
    (Returned /\ "metadata" \in envelope.keys) =>
        /\ Quality \in {"validated_with_pydantic", "unvalidated", "validation_failed"}
        /\ memory.items = BaseItems \o
              << UserItem,
                 [role |-> "assistant", content |-> Slice(agent_response, 0, ReplyKeep)] >>
        /\ shared => callerMem = memory

\* C20: when the completion call fails after the user message was appended,
\* run_request returns the failed envelope and rolls nothing back, so a
\* later call on the same memory submits the unanswered user turn; and
\* whenever a response tier is returned, the first 500 characters of the
\* reply were appended to the memory.
C20_FailedCallLeavesUserTurn ==
    /\ FailedCallKeepsUserTurn
    /\ UnansweredTurnIsSubmitted
    /\ ReplyKeptInEveryTier

\* A second call shares the memory that a failed call left with an
\* unanswered user turn, and has issued its completion call in turn.
C20_Witness ==
    /\ harness = "session" /\ shared /\ reqCount = 2
    /\ HasEvent("completion_issued")
    /\ atStart.callerMem.items # <<>>
    /\ LastItem(atStart.callerMem.items).role = "user"
    /\ Len(atStart.ltmStore) = 1

---------------------------------------------------------------------------
(* Retrieval *)

RetrievePositions ==
    {"idle", "get_client", "embed", "check_vector", "convert", "query",
     "log_results", "except", "returned"}

EmbeddingSideFailed ==
    provided.kind \in {"kernel_failed", "raises", "empty_result", "not_iterable"}

ZeroLengthVector == provided.kind = "vector" /\ provided.vector = <<>>

NonNumericElement ==
    /\ provided.kind = "vector"
    /\ \E i \in DOMAIN provided.vector :
          provided.vector[i] \notin Floats \cup NumericStrings

\* C12: retrieve never propagates an error: no exception of its body leaves
\* it, and when the Cosmos client is unavailable, the embedding step fails,
\* the embedding is empty, an element is non-numeric or the store query
\* fails, the call returns the empty list.
C12_RetrieveNeverPropagates ==
    /\ rpc \in RetrievePositions
    /\ rpc = "returned" =>
          /\ (EmbeddingSideFailed \/ ZeroLengthVector \/ NonNumericElement)
                => failure # "none"
          /\ failure # "none" => retrieved = <<>>
          /\ failure = "none" => retrieved = query_results

\* The query vector held a None: float() raised and the call returned [].
C12_Witness ==
    /\ rpc = "returned"
    /\ failure = "TypeError"
    /\ NonNumericElement
    /\ retrieved = <<>>

Sorted(rows) ==
    \A a, b \in DOMAIN rows : a < b => rows[a].distance <= rows[b].distance

\* C13 as stated: retrieve returns at most k results in non-decreasing
\* distance, and when a partition_key is given (is not None) every returned
\* document belongs to that partition.
C13_TopKSortedInGivenPartition ==
    rpc = "returned" =>
        /\ Len(retrieved) <= arg_k
        /\ Sorted(retrieved)
        /\ partition_key # Null =>
              \A i \in DOMAIN retrieved : retrieved[i].pk = partition_key

\* C13, amended: at most k results in non-decreasing distance, and when a
\* non-empty partition_key is given every returned document belongs to that
\* partition; an empty partition_key restricts nothing.
C13_TopKSortedInNonEmptyPartition ==
    rpc = "returned" =>
        /\ Len(retrieved) <= arg_k
        /\ Sorted(retrieved)
        /\ partition_key \notin {Null, ""} =>
              \A i \in DOMAIN retrieved : retrieved[i].pk = partition_key
        /\ \A i \in DOMAIN retrieved :
              /\ retrieved[i].id \in DOMAIN container
              /\ retrieved[i] = Row(container, retrieved[i].id)

\* A query restricted to "cards" with k = 1 returned one row at distance 2
\* although the store holds two such documents and a nearer document of
\* another partition.
C13_Witness ==
    /\ rpc = "returned"
    /\ partition_key = "cards"
    /\ arg_k = 1
    /\ Len(retrieved) = 1
    /\ retrieved[1].distance = 2
    /\ \E i \in DOMAIN container :
          container[i].pk = "lounges" /\ container[i].embedding
            /\ container[i].distance = 1
    /\ Cardinality({i \in DOMAIN container :
                      container[i].pk = "cards" /\ container[i].embedding}) = 2

EmbedCalled == provided # NoOutcome

\* C14 as stated: embed_texts fails with an error, rather than returning a
\* vector, when the provider fails and when it returns an empty or malformed
\* result (zero-length vector, non-numeric element).
C14_EmbedFailsOnBadResult ==
    (EmbedCalled /\ (EmbeddingSideFailed \/ ZeroLengthVector \/ NonNumericElement))
        => (failure = "EmbeddingError" /\ query_embedding = <<>>)

\* C14, amended: embed_texts fails with an error when the embedding side
\* fails or returns no usable result entry; a zero-length vector or one
\* with a non-numeric element is returned by embed_texts as it is, and
\* retrieve rejects it and returns the empty list.
C14_EmbedFailsOnProviderFailure ==
    EmbedCalled =>
        /\ EmbeddingSideFailed =>
              (failure = "EmbeddingError" /\ query_embedding = <<>>)
        /\ provided.kind = "vector" =>
              (failure # "EmbeddingError" /\ query_embedding = <<provided.vector>>)
        /\ (rpc = "returned" /\ (ZeroLengthVector \/ NonNumericElement)) =>
              (failure \in {"ValueError", "TypeError"} /\ retrieved = <<>>)

\* The provider returned a zero-length vector: embed_texts returned it, and
\* retrieve raised ValueError and returned [].
C14_Witness ==
    /\ rpc = "returned"
    /\ ZeroLengthVector
    /\ query_embedding = <<(<<>>)>>
    /\ failure = "ValueError"
    /\ retrieved = <<>>

---------------------------------------------------------------------------
(* The weather and currency tools *)

\* Something went wrong on the way of get_weather: a request failed, the
\* city was not found, a body was malformed or temperature data is missing.
WeatherWentWrong ==
    \/ geocode_data \in RequestFailures
    \/ geocode_data \in {"no_results_key", "empty_results", "missing_latitude",
                         "not_a_mapping"}
    \/ weather_data.kind \in RequestFailures \cup {"not_a_mapping"}
    \/ /\ weather_data.kind = "daily"
       /\ \/ weather_data.temps.max = <<>>
          \/ weather_data.temps.min = <<>>
          \/ weather_data.codes = <<>>

\* Something went wrong on the way of convert_fx: an argument is no string,
\* the request failed, the body is malformed or lacks the target currency.
FxWentWrong ==
    \/ base = Null
    \/ target = Null
    \/ fx_data.kind \in RequestFailures
    \/ fx_data.kind \in {"not_a_mapping", "no_rates_key", "target_absent",
                         "rate_not_a_number"}

\* The data fields of the success shapes (specification, section 4.5).
WeatherDataFields == {"temperature_c", "conditions", "recommendation", "forecast_days"}

FxDataFields == {"converted_amount", "rate", "date"}

\* The field is null in the result (an absent key is counted as null).
NullIn(out, f) == f \notin out.keys \/ out[f] = None

ToolPositions ==
    {"idle", "geocode", "check_city", "forecast", "process", "normalize",
     "request", "convert", "except", "returned"}

\* C15 as stated: get_weather and convert_fx never raise into the caller,
\* and for every failure they return a JSON string whose error field is
\* populated and whose data fields of the success shape are all null.
C15_FailureIsErrorAndNulls ==
    /\ wpc \in ToolPositions /\ fpc \in ToolPositions
    /\ (wpc = "returned" /\ WeatherWentWrong) =>
          /\ "error" \in weather_out.keys /\ weather_out.error # None
          /\ \A f \in WeatherDataFields : NullIn(weather_out, f)
    /\ (fpc = "returned" /\ FxWentWrong) =>
          /\ "error" \in fx_out.keys /\ fx_out.error # None
          /\ \A f \in FxDataFields : NullIn(fx_out, f)

\* C15, amended: neither tool raises into the caller, and for every failure
\* each returns a JSON string whose error field is populated and whose
\* numeric data fields are null (temperature_c; converted_amount and rate);
\* get_weather's degraded shape carries conditions "unknown" and a fixed
\* recommendation text, and the other fields of the success shapes
\* (forecast_days, date) are absent; convert_fx echoes base, target, amount.
C15_FailureIsErrorAndNullNumbers ==
    /\ wpc \in ToolPositions /\ fpc \in ToolPositions
    /\ (wpc = "returned" /\ WeatherWentWrong) =>
          /\ weather_out.keys = {"error", "temperature_c", "conditions", "recommendation"}
          /\ weather_out.error # None
          /\ weather_out.temperature_c = None
          /\ weather_out.conditions = Some("unknown")
          /\ weather_out.recommendation # None
    /\ (wpc = "returned" /\ ~WeatherWentWrong) => "error" \notin weather_out.keys
    /\ (fpc = "returned" /\ FxWentWrong) =>
          /\ fx_out.keys = {"error", "base", "target", "amount", "converted_amount", "rate"}
          /\ fx_out.error # None
          /\ fx_out.converted_amount = None
          /\ fx_out.rate = None
          /\ fx_out.amount = Some(amount)
    /\ (fpc = "returned" /\ ~FxWentWrong) => "error" \notin fx_out.keys

\* The forecast request timed out: get_weather returned its degraded shape.
C15_Witness ==
    /\ wpc = "returned"
    /\ weather_data.kind = "timeout"
    /\ weather_out.error = Some("request_failed")
    /\ weather_out.conditions = Some("unknown")

\* The category of a daily code, by the thresholds of the claim.
CategoryOf(code) ==
    CASE code <= 1               -> "sunny"
      [] code > 1 /\ code <= 3   -> "cloudy"
      [] code > 50               -> "rainy"
      [] code > 3 /\ code <= 50  -> "mixed"

DaysOf(codes, cat) == Cardinality({i \in DOMAIN codes : CategoryOf(codes[i]) = cat})

\* C16: for every non-empty list of daily weather codes, the conditions
\* get_weather reports are a category (sunny for code <= 1, cloudy for
\* 1 < code <= 3, rainy for code > 50, mixed for 3 < code <= 50) whose
\* count of days is maximal over the forecast; for codes
\* [0,0,2,2,2,60,60] they are cloudy.
C16_DominantConditionHasMaximalCount ==
    (wpc = "returned" /\ "error" \notin weather_out.keys) =>
        LET codes == weather_data.codes
            cond  == weather_out.conditions[1]
        IN  /\ codes # <<>>
            /\ cond \in {"sunny", "cloudy", "rainy", "mixed"}
            /\ DaysOf(codes, cond) > 0
            /\ \A c \in {"sunny", "cloudy", "rainy", "mixed"} :
                  DaysOf(codes, c) <= DaysOf(codes, cond)
            /\ codes = <<0, 0, 2, 2, 2, 60, 60>> => cond = "cloudy"

\* The week of the example was forecast and reported as cloudy.
C16_Witness ==
    /\ wpc = "returned"
    /\ weather_data.codes = <<0, 0, 2, 2, 2, 60, 60>>
    /\ weather_out.conditions = Some("cloudy")
    /\ "error" \notin weather_out.keys

---------------------------------------------------------------------------
(* C17: what web_search returns *)

\* The call got a JSON array of objects out of the agent and no step failed.
SearchSucceeded ==
    /\ configured
    /\ raw_json # None
    /\ sraised = "none"

\* filter_keywords holds at least one keyword
KeywordsGiven == filter_keywords # None /\ filter_keywords[1] # <<>>

\* The provider's entries in {title, url, snippet} shape, in rank order.
ShapedEntries ==
    [i \in DOMAIN provider_entries |->
        LET r == provider_entries[i]
        IN  [title   |-> IF "title" \in r.has THEN r.title ELSE <<"U">>,
             url     |-> IF "url" \in r.has THEN r.url ELSE "",
             snippet |-> IF "snippet" \in r.has THEN r.snippet ELSE <<>>]]

\* Title plus snippet mentions one of the keywords, whatever the case.
MentionsKeyword(r) ==
    \E i \in DOMAIN filter_keywords[1] :
        Contains(LowerText(filter_keywords[1][i]), LowerText(r.title \o r.snippet))

MatchingEntries == SelectSeq(ShapedEntries, MentionsKeyword)

\* One placeholder entry that names what went wrong.
PlaceholderFor ==
    /\ Len(search_out) = 1
    /\ search_out[1].title =
          IF ~configured THEN <<"Missing configuration">>
          ELSE IF sraised # "none" THEN <<"Search error">>
          ELSE <<"No results">>
    /\ sraised # "none" => search_out[1].snippet = <<sraised>>

=============================================================================
